---- MODULE Spec2Model ----
(***************************************************************************)
(* Model of the HTTP capture correlator (class HttpCapture and the helper  *)
(* functions setupHttpCapture / waitForHttpCapture) running on the         *)
(* single-threaded event loop of the host.                                 *)
(*                                                                         *)
(* One step of the model is one task of the event loop: a synchronous call *)
(* of the test scenario up to its next await, a page event with the        *)
(* listeners it dispatches to, the settling of a body read together with   *)
(* the continuation it resumes, the firing of a polling timer, or the      *)
(* passing of time.                                                        *)
(*                                                                         *)
(* The second half models FormFillUtil (fillWithRetry, verifyFill,         *)
(* fillAndAssert, fillMultiple) on the same page: its specification is     *)
(* FillSpec, in which the correlator stays as constructed.                 *)
(***************************************************************************)
EXTENDS Integers, Sequences, FiniteSets, TLC

\* ------------------------------------------------------------------ bounds
\* Number of request/response exchanges the browser issues in one behaviour.
MaxResp == 2
\* Granularity of the clock, in milliseconds.
TickMs == 50
\* The clock of a wait is followed up to this many milliseconds.
MaxElapsed == 250

\* Largest maxRetries a call is given.
MaxRetries == 2
\* Largest number of requests the browser has in flight at once.
MaxInflight == 1
\* Largest number of fields given to fillMultiple.
MaxFields == 2
\* Number of urls one correlator's pattern is applied to in a row.
MaxTests == 3

\* ------------------------------------------------------- program constants
\* page.waitForTimeout(50) of the quiescence wait.
QuiescePoll == 50
\* page.waitForTimeout(100): the polling interval of waitForNextCapture.
PollInterval == 100

\* The timeouts the scenario passes to waitForNextCapture / waitForHttpCapture.
Timeouts == {0, 150}

\* ------------------------------------------------------------------- URLs
\* URLs and patterns are strings, modelled as sequences of characters.
UrlMatch == <<"h", "/", "u">>
UrlOther == <<"h", "/", "U">>
Urls == {UrlMatch, UrlOther}

\* The substring pattern the correlator was constructed with.
urlPattern == <<"/", "u">>

\* String.prototype.includes: simple containment, case-sensitive.
Includes(url, pat) ==
    \E i \in 0..(Len(url) - Len(pat)) : SubSeq(url, i + 1, i + Len(pat)) = pat

VARIABLES
    \* ---- fields of HttpCapture
    isCapturing,      \* this.isCapturing
    capturedData,     \* this.capturedData: sequence of captured pairs
    requestHandler,   \* this.requestHandler: closure identity, Null when unset
    responseHandler,  \* this.responseHandler: closure identity, Null when unset
    requestMap,       \* the Map local to startCapture (keys only)
    \* ---- the driver
    pageListeners,    \* listeners registered on the page, per event name
    exchanges,        \* the exchanges issued so far: url, progress, and
                      \* whether the response arrived while capturing
    arrived,          \* ids of the responses whose capture was begun by the
                      \* response handler, in order of delivery
    \* ---- the scenario (caller) and its pending waitForNextCapture
    pc,               \* "idle" | "sleeping" (inside page.waitForTimeout(100))
    timeout,          \* the timeout argument of the pending wait
    elapsed,          \* Date.now() - startTime of the pending wait
    wakeAt,           \* value of elapsed at which the polling timer is due
    viaHelper,        \* the pending wait was made by waitForHttpCapture
    ret,              \* what the last call of the scenario returned
    \* ---- history of the current wait / buffer, for stating the properties
    obsInWindow,      \* matching responses observed while the wait was
                      \* pending and less than timeout ms old
    captureCount,     \* pairs captured since the last start / clear
    preTriggered      \* ids of matching exchanges issued before the helper call

VARIABLES
    \* ---- this.urlPattern as an object of its own
    pattern,          \* the string, or the source and flags of the RegExp
    lastIndex,        \* the lastIndex property of the RegExp
    tested            \* the urls matchesPattern was called with, in order,
                      \* each with what it returned

VARIABLES
    \* ---- the call of FormFillUtil in progress
    fpc,              \* where the call is suspended (the await it is in)
    mode,             \* "fillWithRetry" | "fillAndAssert" | "fillMultiple"
    config,           \* the merged config of the fillWithRetry in progress
    attempt,          \* the loop variable of fillWithRetry
    lastError,        \* lastError
    activeRequests,   \* the counter of this attempt's request tracker
    trackRequest,     \* closure identities of this attempt's tracker,
    trackFinish,      \* Null while none is registered
    qElapsed,         \* Date.now() - startTime of the quiescence wait, kept
                      \* to the end of the attempt if the wait timed out
    result,           \* what the call handed back (or threw)
    fields,           \* fillMultiple: number of fields of the input list
    results,          \* fillMultiple: the results pushed so far
    globalOptions,    \* fillMultiple: its globalOptions argument
    fieldOptions,     \* fillMultiple: field.options of the field it is at
    \* ---- the page
    target,           \* the field: its value and whether it is disabled
    inflight,         \* requests the browser has in flight
    \* ---- history of the fillWithRetry in progress
    log               \* counts of what it did, and how attempt 1 ended

VARIABLES
    \* ---- the other owners of listeners on the same page
    peer              \* a second HttpCapture that is capturing (its pattern,
                      \* its two closures, its buffer, the exchanges whose
                      \* response.text() it is suspended on) and the attempt
                      \* of a second fillWithRetry (its two closures and its
                      \* counter); the closures are Null when there is none

fillVars == <<fpc, mode, config, attempt, lastError, activeRequests,
              trackRequest, trackFinish, qElapsed, result, fields, results,
              globalOptions, fieldOptions, target, inflight, log>>

captureVars == <<isCapturing, capturedData, requestHandler, responseHandler,
                 requestMap, exchanges, arrived, pc, timeout, elapsed,
                 wakeAt, viaHelper, ret, obsInWindow, captureCount,
                 preTriggered>>

matchVars == <<pattern, lastIndex, tested>>

vars == <<isCapturing, capturedData, requestHandler, responseHandler,
          requestMap, pageListeners, exchanges, arrived, pc, timeout, elapsed,
          wakeAt, viaHelper, ret, obsInWindow, captureCount, preTriggered,
          fillVars, matchVars, peer>>

objVars == <<isCapturing, capturedData, requestHandler, responseHandler,
             requestMap, pageListeners>>

waitVars == <<pc, timeout, elapsed, wakeAt, viaHelper>>

Null == 0

\* A closure created by startCapture is a new object: an identity that no
\* registered listener and no field currently holds.
FreshId(used) == CHOOSE i \in 1..(Cardinality(used) + 1) :
                     i \notin used /\ \A j \in 1..(i - 1) : j \in used

\* matchesPattern for a string pattern.
matchesPattern(url) == Includes(url, urlPattern)

\* The patterns a correlator is constructed with: the string, or a RegExp
\* made of the same literal characters, with or without the flags g and y.
StringPattern == [kind |-> "string", source |-> urlPattern,
                  global |-> FALSE, sticky |-> FALSE]
Patterns == {StringPattern} \cup
            [kind : {"regex"}, source : {urlPattern},
             global : BOOLEAN, sticky : BOOLEAN]

\* The urls a pattern is applied to.
UrlTwice == <<"/", "u", "/", "u">>
MatchUrls == Urls \cup {UrlTwice}

\* The characters of src are in url from index i (counted from 0) on.
MatchAt(url, src, i) ==
    /\ i + Len(src) <= Len(url)
    /\ SubSeq(url, i + 1, i + Len(src)) = src

\* RegExp.prototype.test of a RegExp of literal characters: the search
\* starts at lastIndex when the flag g or y is set and at 0 otherwise; with
\* y the match must begin there. With g or y, a match leaves lastIndex at
\* its end and a failure leaves it at 0.
regexTest(p, li, url) ==
    LET keeps == p.global \/ p.sticky
        start == IF keeps THEN li ELSE 0
        hits == {i \in (IF p.sticky THEN {start}
                        ELSE start..(Len(url) - Len(p.source))) :
                    MatchAt(url, p.source, i)}
    IN IF hits = {}
       THEN [result |-> FALSE, lastIndex |-> IF keeps THEN 0 ELSE li]
       ELSE LET i == CHOOSE h \in hits : \A k \in hits : h <= k
            IN [result |-> TRUE,
                lastIndex |-> IF keeps THEN i + Len(p.source) ELSE li]

\* matchesPattern: url.includes for a string, urlPattern.test for a RegExp.
matchesPatternOf(p, li, url) ==
    IF p.kind = "string"
    THEN [result |-> Includes(url, p.source), lastIndex |-> li]
    ELSE regexTest(p, li, url)

\* Variant: the request of the pair is the first one observed with the url
\* of the response.
PairByUrl(r, body) ==
    [request |-> CHOOSE q \in DOMAIN exchanges :
                    /\ exchanges[q].url = exchanges[r].url
                    /\ \A p \in 1..(q - 1) : exchanges[p].url # exchanges[r].url,
     response |-> r, body |-> body]

\* The pair the response handler builds for exchange r: the request is the
\* one attached to the response (response.request()).
Pair(r, body) == [request |-> r, response |-> r, body |-> body]

\* What a call hands back to the scenario. op: the operation; kind: "void",
\* "all" (a snapshot), "pair", "timeout" (the thrown error) or "pending" (the
\* call is suspended); value: the pair or the snapshot.
\* Kept with it, for stating the properties: slept (the call went through at
\* least one polling sleep), waited and timeout (Date.now() - startTime when
\* the error was thrown, and the timeout argument), helper (the call was
\* waitForHttpCapture), seen (number of exchanges the browser had issued
\* when the call returned or threw) and held (number of pairs in the buffer when
\* startCapture / stopCapture returned).
Ret(op, kind, value, slept, waited, t, helper, held) ==
    [op |-> op, kind |-> kind, value |-> value, slept |-> slept,
     waited |-> IF kind = "timeout" THEN waited ELSE 0,
     timeout |-> IF kind = "timeout" THEN t ELSE 0,
     helper |-> helper,
     seen |-> IF kind \in {"pair", "void", "timeout"}
              THEN Len(exchanges) ELSE 0,
     held |-> IF kind = "void" THEN held ELSE 0]

Void(op, held) == Ret(op, "void", <<>>, FALSE, 0, 0, FALSE, held)

\* No call of FormFillUtil in progress, nothing handed back yet.
NoConfig == [maxRetries |-> 0, waitForRequests |-> FALSE,
             clearOnRetry |-> FALSE, fillAction |-> FALSE,
             verifyAction |-> FALSE, isString |-> TRUE,
             requestTimeout |-> 0]

\* What the fillWithRetry in progress has done so far: the field of the
\* input list it works on (1 when called on its own), how often it called
\* fillAction, verifyFill and locator.clear() and slept retryDelay, whether
\* the verifyFill of its first attempt said yes, and whether the page's own
\* scripts touched the field meanwhile.
NoLog == [field |-> 0, actions |-> 0, verifies |-> 0, clears |-> 0,
          retryDelays |-> 0, yes1 |-> FALSE, touched |-> FALSE]

NoResult == [kind |-> "none"]

\* An options argument that was not given, or that sets nothing.
NoOptions == [k \in {} |-> TRUE]

FillIdle ==
    /\ fpc = "idle"
    /\ mode = "none"
    /\ config = NoConfig
    /\ attempt = 0
    /\ lastError = ""
    /\ activeRequests = 0
    /\ trackRequest = Null
    /\ trackFinish = Null
    /\ qElapsed = 0
    /\ result = NoResult
    /\ fields = 0
    /\ results = <<>>
    /\ globalOptions = NoOptions
    /\ fieldOptions = NoOptions
    /\ log = NoLog

\* No other owner: nothing of a peer is registered on the page.
NoPeer == [pattern |-> <<>>, requestHandler |-> Null, responseHandler |-> Null,
           capturedData |-> <<>>, reading |-> {},
           trackRequest |-> Null, trackFinish |-> Null, activeRequests |-> 0]

\* A newly constructed HttpCapture on a page without listeners.
CaptureInit ==
    /\ isCapturing = FALSE
    /\ capturedData = <<>>
    /\ requestHandler = Null
    /\ responseHandler = Null
    /\ requestMap = {}
    /\ pageListeners = [request |-> {}, response |-> {},
                        requestfinished |-> {}, requestfailed |-> {}]
    /\ exchanges = <<>>
    /\ arrived = <<>>
    /\ pc = "idle"
    /\ timeout = 0
    /\ elapsed = 0
    /\ wakeAt = 0
    /\ viaHelper = FALSE
    /\ ret = Void("new", 0)
    /\ obsInWindow = 0
    /\ captureCount = 0
    /\ preTriggered = {}
    /\ lastIndex = 0
    /\ tested = <<>>
    /\ peer = NoPeer

Init ==
    /\ FillIdle
    /\ target = [value |-> "", disabled |-> FALSE]
    /\ inflight = 0
    /\ CaptureInit
    /\ pattern = StringPattern

\* ---------------------------------------------------------- HttpCapture
\* The object and the registry it writes to, as one value, so that the
\* methods compose (waitForHttpCapture is start, wait, stop).
Obj == [isCapturing |-> isCapturing, capturedData |-> capturedData,
        requestHandler |-> requestHandler, responseHandler |-> responseHandler,
        requestMap |-> requestMap, pageListeners |-> pageListeners]

SetObj(o) ==
    /\ isCapturing' = o.isCapturing
    /\ capturedData' = o.capturedData
    /\ requestHandler' = o.requestHandler
    /\ responseHandler' = o.responseHandler
    /\ requestMap' = o.requestMap
    /\ pageListeners' = o.pageListeners

\* Variant: page.off that removes every listener of the event.
offAll(reg, event, h) == [reg EXCEPT ![event] = {}]

\* page.on(event, h) / page.off(event, h)
on(reg, event, h) == [reg EXCEPT ![event] = @ \cup {h}]
off(reg, event, h) == [reg EXCEPT ![event] = @ \ {h}]

\* Variant: startCapture without the isCapturing guard.
startCaptureNoGuard(o) ==
    LET rq == FreshId(o.pageListeners.request \cup {o.requestHandler})
        rs == FreshId(o.pageListeners.response \cup {o.responseHandler})
    IN [isCapturing |-> TRUE,
        capturedData |-> <<>>,
        requestHandler |-> rq,
        responseHandler |-> rs,
        requestMap |-> {},
        pageListeners |-> on(on(o.pageListeners, "request", rq),
                             "response", rs)]

startCapture(o) ==
    IF o.isCapturing THEN o
    ELSE LET rq == FreshId(o.pageListeners.request \cup {o.requestHandler})
             rs == FreshId(o.pageListeners.response \cup {o.responseHandler})
         IN [isCapturing |-> TRUE,
             capturedData |-> <<>>,
             requestHandler |-> rq,
             responseHandler |-> rs,
             requestMap |-> {},
             pageListeners |-> on(on(o.pageListeners, "request", rq),
                                  "response", rs)]

\* Variant: stopCapture that leaves the response listener registered.
stopCaptureKeepsResponse(o) ==
    IF ~o.isCapturing THEN o
    ELSE [o EXCEPT !.isCapturing = FALSE,
                   !.pageListeners = off(o.pageListeners, "request",
                                         o.requestHandler),
                   !.requestHandler = Null,
                   !.responseHandler = Null]

\* Variant: stopCapture that also empties the buffer.
stopCaptureClears(o) ==
    IF ~o.isCapturing THEN o
    ELSE [o EXCEPT !.isCapturing = FALSE,
                   !.capturedData = <<>>,
                   !.pageListeners = off(off(o.pageListeners, "request",
                                             o.requestHandler),
                                         "response", o.responseHandler),
                   !.requestHandler = Null,
                   !.responseHandler = Null]

stopCapture(o) ==
    IF ~o.isCapturing THEN o
    ELSE LET a == IF o.requestHandler # Null
                  THEN off(o.pageListeners, "request", o.requestHandler)
                  ELSE o.pageListeners
              b == IF o.responseHandler # Null
                   THEN off(a, "response", o.responseHandler)
                   ELSE a
         IN [o EXCEPT !.isCapturing = FALSE,
                      !.pageListeners = b,
                      !.requestHandler = Null,
                      !.responseHandler = Null]

\* Variant: clear also stops the capture.
clearStops(o) == stopCapture([o EXCEPT !.capturedData = <<>>])

clear(o) == [o EXCEPT !.capturedData = <<>>]

\* getAllCapturedData: [...this.capturedData], a copy in append order.
getAllCapturedData(buf) == [i \in 1..Len(buf) |-> buf[i]]

\* this.capturedData[this.capturedData.length - 1]: the value handed back and
\* the buffer as the read leaves it.
\* Variant: the read consumes the pair (capturedData.pop()).
takeLatestPop(buf) == [value |-> buf[Len(buf)],
                       rest |-> SubSeq(buf, 1, Len(buf) - 1)]

\* Variant: the read hands back the oldest pair (capturedData[0]).
takeLatestOldest(buf) == [value |-> buf[1], rest |-> buf]

takeLatest(buf) == [value |-> buf[Len(buf)], rest |-> buf]

\* The first statements of waitForNextCapture, up to its first await:
\* "return" the latest pair, "sleep" in page.waitForTimeout, or "throw".
waitEntry(buf, t) ==
    IF Len(buf) > 0 THEN "return"
    ELSE IF 0 < t THEN "sleep"
    ELSE "throw"

\* Variant: the loop gives up one polling interval early.
pollCheckEarly(buf, el, t) ==
    IF el + PollInterval < t
    THEN IF Len(buf) > 0 THEN "return" ELSE "sleep"
    ELSE "throw"

\* One turn of the polling loop after the timer has fired.
pollCheck(buf, el, t) ==
    IF el < t
    THEN IF Len(buf) > 0 THEN "return" ELSE "sleep"
    ELSE "throw"

\* Variant: a response whose body could not be read is not recorded.
pushDropsNull(buf, r, body) ==
    IF body = "null" THEN buf ELSE Append(buf, Pair(r, body))

\* The response handler's push.
push(buf, r, body) == Append(buf, Pair(r, body))

\* ------------------------------------------------- the scenario's calls
NoWait ==
    /\ pc' = "idle"
    /\ timeout' = 0
    /\ elapsed' = 0
    /\ wakeAt' = 0
    /\ viaHelper' = FALSE

\* The history of a wait ends with the next call of the scenario.
NoHistory ==
    /\ obsInWindow' = 0
    /\ preTriggered' = {}

StartCapture ==
    /\ pc = "idle"
    /\ SetObj(startCapture(Obj))
    /\ captureCount' = IF isCapturing THEN captureCount ELSE 0
    /\ ret' = Void("startCapture", Len(startCapture(Obj).capturedData))
    /\ NoWait
    /\ NoHistory
    /\ UNCHANGED <<exchanges, arrived>>
    /\ UNCHANGED <<fillVars, matchVars, peer>>

StopCapture ==
    /\ pc = "idle"
    /\ SetObj(stopCapture(Obj))
    /\ ret' = Void("stopCapture", Len(stopCapture(Obj).capturedData))
    /\ NoWait
    /\ NoHistory
    /\ UNCHANGED <<exchanges, arrived, captureCount>>
    /\ UNCHANGED <<fillVars, matchVars, peer>>

Clear ==
    /\ pc = "idle"
    /\ SetObj(clear(Obj))
    /\ captureCount' = 0
    /\ ret' = Void("clear", 0)
    /\ NoWait
    /\ NoHistory
    /\ UNCHANGED <<exchanges, arrived>>
    /\ UNCHANGED <<fillVars, matchVars, peer>>

GetAllCapturedData ==
    /\ pc = "idle"
    /\ ret' = Ret("getAllCapturedData", "all",
                  getAllCapturedData(capturedData), FALSE, 0, 0, FALSE,
                  Len(capturedData))
    /\ NoWait
    /\ NoHistory
    /\ UNCHANGED <<objVars, exchanges, arrived, captureCount>>
    /\ UNCHANGED <<fillVars, matchVars, peer>>

\* Variant: the wait stops the capture when it throws, whoever called it.
CompleteStopsOnThrow(op, o, out, slept, el, t, helper) ==
    LET got == takeLatest(o.capturedData)
        o1 == IF out = "return" THEN [o EXCEPT !.capturedData = got.rest]
              ELSE o
    IN /\ ret' = IF out = "return"
                 THEN Ret(op, "pair", got.value, slept, el, t, helper,
                          Len(o1.capturedData))
                 ELSE Ret(op, "timeout", <<>>, slept, el, t, helper,
                          Len(o1.capturedData))
       /\ SetObj(IF helper \/ out = "throw" THEN stopCapture(o1) ELSE o1)
       /\ NoWait

\* Variant: waitForHttpCapture without its finally block.
CompleteNoFinally(op, o, out, slept, el, t, helper) ==
    LET got == takeLatest(o.capturedData)
        o1 == IF out = "return" THEN [o EXCEPT !.capturedData = got.rest]
              ELSE o
    IN /\ ret' = IF out = "return"
                 THEN Ret(op, "pair", got.value, slept, el, t, helper,
                          Len(o1.capturedData))
                 ELSE Ret(op, "timeout", <<>>, slept, el, t, helper,
                          Len(o1.capturedData))
       /\ SetObj(o1)
       /\ NoWait

\* The wait completes (returns the latest pair, or throws) in object state o,
\* out being "return" or "throw"; a wait made by waitForHttpCapture then runs
\* the finally block, capture.stopCapture().
Complete(op, o, out, slept, el, t, helper) ==
    LET got == takeLatest(o.capturedData)
        o1 == IF out = "return" THEN [o EXCEPT !.capturedData = got.rest]
              ELSE o
    IN /\ ret' = IF out = "return"
                 THEN Ret(op, "pair", got.value, slept, el, t, helper,
                          Len(o1.capturedData))
                 ELSE Ret(op, "timeout", <<>>, slept, el, t, helper,
                          Len(o1.capturedData))
       /\ SetObj(IF helper THEN stopCapture(o1) ELSE o1)
       /\ NoWait

\* The wait suspends in page.waitForTimeout(100).
Suspend(op, o, el, t, helper) ==
    /\ ret' = Ret(op, "pending", <<>>, TRUE, el, t, helper, Len(o.capturedData))
    /\ SetObj(o)
    /\ pc' = "sleeping"
    /\ timeout' = t
    /\ elapsed' = el
    /\ wakeAt' = el + PollInterval
    /\ viaHelper' = helper

WaitForNextCapture(t) ==
    /\ pc = "idle"
    /\ t + PollInterval <= MaxElapsed
    /\ LET out == waitEntry(capturedData, t)
       IN IF out = "sleep"
          THEN Suspend("waitForNextCapture", Obj, 0, t, FALSE)
          ELSE Complete("waitForNextCapture", Obj, out, FALSE, 0, t, FALSE)
    /\ NoHistory
    /\ UNCHANGED <<exchanges, arrived, captureCount>>
    /\ UNCHANGED <<fillVars, matchVars, peer>>

\* No handler of an earlier capture is still reading a body: a correlator
\* that is not capturing is then in the state of a newly constructed one, as
\* far as startCapture and everything after it can tell.
AsConstructed ==
    /\ ~isCapturing
    /\ \A r \in DOMAIN exchanges : exchanges[r].readers = 0

\* waitForHttpCapture(page, urlPattern, t): setupHttpCapture (new
\* HttpCapture, startCapture), then waitForNextCapture(t) under try/finally.
WaitForHttpCapture(t) ==
    /\ pc = "idle"
    /\ AsConstructed
    /\ t + PollInterval <= MaxElapsed
    /\ LET o == startCapture(Obj)
           out == waitEntry(o.capturedData, t)
       IN IF out = "sleep"
          THEN Suspend("waitForHttpCapture", o, 0, t, TRUE)
          ELSE Complete("waitForHttpCapture", o, out, FALSE, 0, t, TRUE)
    /\ obsInWindow' = 0
    /\ captureCount' = 0
    /\ preTriggered' = {r \in DOMAIN exchanges :
                           matchesPattern(exchanges[r].url)}
    /\ UNCHANGED <<exchanges, arrived>>
    /\ UNCHANGED <<fillVars, matchVars, peer>>

\* The polling timer fires and the loop takes its next turn.
PollWake ==
    /\ pc = "sleeping"
    /\ elapsed >= wakeAt
    /\ LET out == pollCheck(capturedData, elapsed, timeout)
       IN IF out = "sleep"
          THEN Suspend(ret.op, Obj, elapsed, timeout, viaHelper)
          ELSE Complete(ret.op, Obj, out, TRUE, elapsed, timeout, viaHelper)
    /\ UNCHANGED <<exchanges, arrived, obsInWindow, captureCount, preTriggered>>
    /\ UNCHANGED <<fillVars, matchVars, peer>>

\* ------------------------------------------------------ the environment
\* Time passes while the scenario sleeps.
Tick ==
    /\ pc = "sleeping"
    /\ elapsed + TickMs <= MaxElapsed
    /\ elapsed' = elapsed + TickMs
    /\ UNCHANGED <<objVars, exchanges, arrived, pc, timeout, wakeAt, viaHelper,
                   ret, obsInWindow, captureCount, preTriggered>>
    /\ UNCHANGED <<fillVars, matchVars, peer>>

\* The browser issues a request for url and the page emits 'request': the
\* request handler, when registered, notes a matching url in its map, and
\* every registered request counter counts it.
RequestEvent(url) ==
    /\ Len(exchanges) < MaxResp
    /\ exchanges' = Append(exchanges,
                           [url |-> url, st |-> "pending", readers |-> 0,
                            live |-> FALSE])
    /\ requestMap' = IF /\ requestHandler # Null
                        /\ requestHandler \in pageListeners.request
                        /\ matchesPattern(url)
                     THEN requestMap \cup {url}
                     ELSE requestMap
    /\ activeRequests' = IF /\ trackRequest # Null
                            /\ trackRequest \in pageListeners.request
                         THEN activeRequests + 1 ELSE activeRequests
    /\ peer' = IF /\ peer.trackRequest # Null
                  /\ peer.trackRequest \in pageListeners.request
               THEN [peer EXCEPT !.activeRequests = @ + 1] ELSE peer
    /\ UNCHANGED <<isCapturing, capturedData, requestHandler, responseHandler,
                   pageListeners, arrived, waitVars, ret, obsInWindow,
                   captureCount, preTriggered>>
    /\ UNCHANGED <<fpc, mode, config, attempt, lastError, trackRequest,
                   trackFinish, qElapsed, result, fields, results,
                   globalOptions, fieldOptions, target, inflight, log,
                   matchVars>>

\* The page emits 'response' for exchange r: every registered response
\* handler tests the url against the pattern of its own correlator and, on
\* a match, captures the request and calls response.text(), on which it
\* suspends.
ResponseEvent(r) ==
    /\ r \in DOMAIN exchanges
    /\ exchanges[r].st = "pending"
    /\ LET n == IF matchesPattern(exchanges[r].url)
                THEN Cardinality(pageListeners.response
                                     \ {peer.responseHandler})
                ELSE 0
       IN /\ exchanges' = [exchanges EXCEPT
                              ![r].st = IF n > 0 THEN "reading" ELSE "unhandled",
                              ![r].readers = n,
                              ![r].live = isCapturing /\ n > 0]
          /\ arrived' = IF n > 0 THEN Append(arrived, r) ELSE arrived
    /\ peer' = IF /\ peer.responseHandler # Null
                  /\ peer.responseHandler \in pageListeners.response
                  /\ Includes(exchanges[r].url, peer.pattern)
               THEN [peer EXCEPT !.reading = @ \cup {r}] ELSE peer
    /\ UNCHANGED <<objVars, waitVars, ret, obsInWindow, captureCount,
                   preTriggered>>
    /\ UNCHANGED <<fillVars, matchVars>>

\* response.text() of a suspended handler settles (body read, or the read
\* failed and the body is null); the handler builds the pair and pushes it.
BodySettles(r, body) ==
    /\ r \in DOMAIN exchanges
    /\ exchanges[r].readers > 0
    /\ capturedData' = push(capturedData, r, body)
    /\ exchanges' = [exchanges EXCEPT
                        ![r].readers = @ - 1,
                        ![r].st = IF exchanges[r].readers = 1
                                  THEN "done" ELSE "reading"]
    /\ captureCount' = captureCount + 1
    /\ obsInWindow' = IF pc = "sleeping" /\ elapsed < timeout
                      THEN obsInWindow + 1 ELSE obsInWindow
    /\ UNCHANGED <<isCapturing, requestHandler, responseHandler, requestMap,
                   pageListeners, arrived, waitVars, ret, preTriggered>>
    /\ UNCHANGED <<fillVars, matchVars, peer>>

Bodies == {"text", "null"}

\* response.text() of a suspended handler of the peer settles: it pushes the
\* pair to the buffer of its own correlator.
PeerBodySettles(r, body) ==
    /\ r \in peer.reading
    /\ peer' = [peer EXCEPT !.reading = @ \ {r},
                            !.capturedData = push(@, r, body)]
    /\ UNCHANGED <<captureVars, pageListeners, fillVars, matchVars>>

Next ==
    \/ StartCapture
    \/ StopCapture
    \/ Clear
    \/ GetAllCapturedData
    \/ \E t \in Timeouts : WaitForNextCapture(t)
    \/ \E t \in Timeouts : WaitForHttpCapture(t)
    \/ PollWake
    \/ Tick
    \/ \E url \in Urls : RequestEvent(url)
    \/ \E r \in 1..MaxResp : ResponseEvent(r)
    \/ \E r \in 1..MaxResp, body \in Bodies : BodySettles(r, body)

Spec == Init /\ [][Next]_vars

\* Time advances and a due timer fires.
FairSpec == Spec /\ WF_vars(Tick) /\ WF_vars(PollWake)

\* ============================================================ FormFillUtil
\* The intended value of a call is Want: the string to fill in, or, for a
\* call given a value that is not a string, the state the field is to take.
\* The field under fill holds Want or the empty string.
Want == "want"
Values == {"", Want}

\* The options a call is given, with the defaults applied; fillAction and
\* verifyAction say whether the caller supplied the function, and isString
\* is typeof value === 'string'.
RequestTimeouts == {100}

Configs == [maxRetries : 0..MaxRetries, waitForRequests : BOOLEAN,
            clearOnRetry : BOOLEAN, fillAction : BOOLEAN,
            verifyAction : BOOLEAN, isString : BOOLEAN,
            requestTimeout : RequestTimeouts]

\* The defaults of maxRetries and requestTimeout.
DefaultMaxRetries == 3
DefaultRequestTimeout == 3000

\* options.k ?? d: the option k if the options set it, the default d if not.
OptionOr(o, k, d) == IF k \in DOMAIN o THEN o[k] ELSE d

\* The config fillWithRetry makes of its options: each key with its default.
configOf(o, isString) ==
    [maxRetries |-> OptionOr(o, "maxRetries", DefaultMaxRetries),
     waitForRequests |-> OptionOr(o, "waitForRequests", TRUE),
     clearOnRetry |-> OptionOr(o, "clearOnRetry", TRUE),
     fillAction |-> OptionOr(o, "fillAction", FALSE),
     verifyAction |-> OptionOr(o, "verifyAction", FALSE),
     isString |-> isString,
     requestTimeout |-> OptionOr(o, "requestTimeout", DefaultRequestTimeout)]

\* Variant: on a key both set, the global options win.
mergeOptionsGlobalWins(g, o) ==
    [k \in DOMAIN g \cup DOMAIN o |-> IF k \in DOMAIN g THEN g[k] ELSE o[k]]

\* { ...globalOptions, ...field.options }: the keys of both, a key of both
\* with the value field.options gives it.
mergeOptions(g, o) ==
    [k \in DOMAIN g \cup DOMAIN o |-> IF k \in DOMAIN o THEN o[k] ELSE g[k]]

\* The globalOptions of a fillMultiple: one retry, a fillAction and a
\* verifyAction, a short requestTimeout; waitForRequests switched off or
\* not mentioned.
BatchGlobalOptions ==
    LET g == [maxRetries |-> 1, requestTimeout |-> 100,
              fillAction |-> TRUE, verifyAction |-> TRUE]
    IN {g, [k \in DOMAIN g \cup {"waitForRequests"} |->
               IF k = "waitForRequests" THEN FALSE ELSE g[k]]}

\* The options of a field of a fillMultiple: none, or no retry and
\* waitForRequests switched on.
BatchFieldOptions ==
    {NoOptions, [maxRetries |-> 0, waitForRequests |-> TRUE]}

\* How an awaited call of the driver or of a caller's function settles.
Settles == {"ok", "throws"}

\* The call in progress and the registry it writes to, as one value.
Fill == [fpc |-> fpc, mode |-> mode, config |-> config, attempt |-> attempt,
         lastError |-> lastError, activeRequests |-> activeRequests,
         trackRequest |-> trackRequest, trackFinish |-> trackFinish,
         qElapsed |-> qElapsed, result |-> result, fields |-> fields,
         results |-> results, globalOptions |-> globalOptions,
         fieldOptions |-> fieldOptions, pageListeners |-> pageListeners, log |-> log]

SetFill(f) ==
    /\ fpc' = f.fpc
    /\ mode' = f.mode
    /\ config' = f.config
    /\ attempt' = f.attempt
    /\ lastError' = f.lastError
    /\ activeRequests' = f.activeRequests
    /\ trackRequest' = f.trackRequest
    /\ trackFinish' = f.trackFinish
    /\ qElapsed' = f.qElapsed
    /\ result' = f.result
    /\ fields' = f.fields
    /\ results' = f.results
    /\ globalOptions' = f.globalOptions
    /\ fieldOptions' = f.fieldOptions
    /\ pageListeners' = f.pageListeners
    /\ log' = f.log

\* let activeRequests = 0 and the three page.on of an attempt.
registerTrackers(f) ==
    IF ~f.config.waitForRequests
    THEN [f EXCEPT !.activeRequests = 0]
    ELSE LET tr == FreshId(f.pageListeners.request)
             tf == FreshId(f.pageListeners.requestfinished
                           \cup f.pageListeners.requestfailed)
         IN [f EXCEPT !.activeRequests = 0,
                      !.trackRequest = tr,
                      !.trackFinish = tf,
                      !.pageListeners =
                          on(on(on(f.pageListeners, "request", tr),
                                "requestfinished", tf),
                             "requestfailed", tf)]

\* Variant: the finally block leaves the 'requestfailed' listener on.
releaseTrackersKeepsFailed(f) ==
    IF ~f.config.waitForRequests
    THEN f
    ELSE [f EXCEPT !.trackRequest = Null,
                   !.trackFinish = Null,
                   !.pageListeners =
                       off(off(f.pageListeners, "request", f.trackRequest),
                           "requestfinished", f.trackFinish)]

\* The finally block of an attempt.
releaseTrackers(f) ==
    IF ~f.config.waitForRequests
    THEN f
    ELSE [f EXCEPT !.trackRequest = Null,
                   !.trackFinish = Null,
                   !.pageListeners =
                       off(off(off(f.pageListeners, "request", f.trackRequest),
                               "requestfinished", f.trackFinish),
                           "requestfailed", f.trackFinish)]

\* Variant: without a fillAction the sleep of waitAfterBlur is skipped.
fillStepSkipsBlur(f) ==
    IF f.config.fillAction
    THEN [f EXCEPT !.fpc = "fillAction", !.log.actions = @ + 1]
    ELSE [f EXCEPT !.fpc = "waitBeforeVerify"]

\* Step 2 of an attempt: the caller's fillAction is called, if there is one;
\* then the sleep of waitAfterBlur.
fillStep(f) ==
    IF f.config.fillAction
    THEN [f EXCEPT !.fpc = "fillAction", !.log.actions = @ + 1]
    ELSE [f EXCEPT !.fpc = "waitAfterBlur"]

\* Variant: the clear step is taken on the first attempt too.
clearsFirstAlways(c, k) ==
    c.clearOnRetry /\ ~c.fillAction /\ c.isString

\* Variant: the clear step is taken whether or not a fillAction is given.
clearsFirstWithAction(c, k) ==
    k > 1 /\ c.clearOnRetry /\ c.isString

\* The clear step is taken on a retry, for a string value filled without a
\* fillAction.
clearsFirst(c, k) ==
    k > 1 /\ c.clearOnRetry /\ ~c.fillAction /\ c.isString

\* Variant: the clear step does not look at the number of the attempt.
beginAttemptClearsFirst(f, k) ==
    LET g == registerTrackers([f EXCEPT !.attempt = k])
    IN IF f.config.clearOnRetry /\ ~f.config.fillAction /\ f.config.isString
       THEN [g EXCEPT !.fpc = "clear", !.log.clears = @ + 1]
       ELSE fillStep(g)

\* An iteration of the loop, up to its first await.
beginAttempt(f, k) ==
    LET g == registerTrackers([f EXCEPT !.attempt = k])
    IN IF clearsFirst(f.config, k)
       THEN [g EXCEPT !.fpc = "clear", !.log.clears = @ + 1]
       ELSE fillStep(g)

\* The end of the loop: locator.inputValue().catch(() => '') is awaited.
exhausted(f) == [f EXCEPT !.fpc = "finalRead"]

\* Variant: the last retry is not made.
failAttemptOneLess(f, err) ==
    LET g == [releaseTrackers(f) EXCEPT !.lastError = err, !.qElapsed = 0]
    IN IF f.attempt < f.config.maxRetries
       THEN [g EXCEPT !.fpc = "retryDelay", !.log.retryDelays = @ + 1]
       ELSE exhausted(g)

\* Variant: a fillAction that throws ends the attempts.
failAttemptGivesUp(f, err) ==
    LET g == [releaseTrackers(f) EXCEPT !.lastError = err, !.qElapsed = 0]
    IN IF f.attempt <= f.config.maxRetries /\ err # "fillAction"
       THEN [g EXCEPT !.fpc = "retryDelay", !.log.retryDelays = @ + 1]
       ELSE exhausted(g)

\* Variant: the sleep of retryDelay is taken after the last attempt too.
failAttemptSleepsLast(f, err) ==
    LET g == [releaseTrackers(f) EXCEPT !.lastError = err, !.qElapsed = 0]
    IN IF f.attempt <= f.config.maxRetries + 1
       THEN [g EXCEPT !.fpc = "retryDelay", !.log.retryDelays = @ + 1]
       ELSE exhausted(g)

\* An attempt fails with err (verification said no, or something threw):
\* the finally block, lastError, and the sleep of retryDelay if an attempt
\* is left.
failAttempt(f, err) ==
    LET g == [releaseTrackers(f) EXCEPT !.lastError = err, !.qElapsed = 0]
    IN IF f.attempt <= f.config.maxRetries
       THEN [g EXCEPT !.fpc = "retryDelay", !.log.retryDelays = @ + 1]
       ELSE exhausted(g)

\* Variant: the quiescence wait has no timeout.
quiesceForever(f, el) ==
    IF f.activeRequests <= 0
    THEN [f EXCEPT !.fpc = "waitBeforeVerify", !.qElapsed = 0]
    ELSE [f EXCEPT !.fpc = "quiesce"]

\* Variant: a quiescence wait that times out fails the attempt.
quiesceFatal(f, el) ==
    IF f.activeRequests <= 0
    THEN [f EXCEPT !.fpc = "waitBeforeVerify", !.qElapsed = 0]
    ELSE IF el > f.config.requestTimeout
    THEN [releaseTrackers(f) EXCEPT !.fpc = "finalRead", !.qElapsed = 0,
                                    !.lastError = "quiescence"]
    ELSE [f EXCEPT !.fpc = "quiesce", !.qElapsed = el]

\* The quiescence wait, from its while: no request counted, on to the sleep
\* of waitBeforeVerify; requestTimeout exceeded, the same by the break; one
\* more sleep otherwise.
quiesce(f, el) ==
    IF f.activeRequests <= 0
    THEN [f EXCEPT !.fpc = "waitBeforeVerify", !.qElapsed = 0]
    ELSE IF el > f.config.requestTimeout
    THEN [f EXCEPT !.fpc = "waitBeforeVerify", !.qElapsed = el]
    ELSE [f EXCEPT !.fpc = "quiesce", !.qElapsed = el]

afterBlur(f) ==
    IF f.config.waitForRequests /\ f.activeRequests > 0
    THEN quiesce(f, 0)
    ELSE [f EXCEPT !.fpc = "waitBeforeVerify"]

\* verifyFill, up to its first await; a value that is not a string and no
\* verifyAction: it throws.
verifyFill(f) ==
    LET g == [f EXCEPT !.log.verifies = @ + 1]
    IN IF f.config.verifyAction THEN [g EXCEPT !.fpc = "verifyAction"]
       ELSE IF f.config.isString THEN [g EXCEPT !.fpc = "inputValue"]
       ELSE failAttempt(g, "config")

\* What fillWithRetry returns.
FillResult(f, success, finalValue) ==
    [field |-> f.log.field,
     success |-> success,
     attempts |-> IF success THEN f.attempt ELSE f.config.maxRetries + 1,
     finalValue |-> finalValue,
     error |-> IF success THEN "undefined"
               ELSE IF f.lastError = "" THEN "unknown" ELSE f.lastError]

NewLog(field) == [NoLog EXCEPT !.field = field]

\* Variant: fillAndAssert resolves when the only attempt failed.
finishNeverThrows(f, res, next) ==
    LET g == [f EXCEPT !.fpc = "idle", !.activeRequests = 0, !.qElapsed = 0]
    IN CASE f.mode = "fillWithRetry" ->
              [g EXCEPT !.result = [kind |-> "returned", value |-> res]]
         [] f.mode = "fillAndAssert" ->
              [g EXCEPT !.result =
                  IF res.success \/ res.attempts = 1
                  THEN [kind |-> "resolved"]
                  ELSE [kind |-> "threw", error |-> res.error,
                        attempts |-> res.attempts, expected |-> Want,
                        actual |-> res.finalValue]]
         [] f.mode = "fillMultiple" ->
              LET rs == Append(f.results, res)
              IN IF Len(rs) < f.fields
                 THEN beginAttempt([g EXCEPT !.results = rs,
                                             !.config = configOf(
                                                 mergeOptions(f.globalOptions,
                                                              next), TRUE),
                                             !.fieldOptions = next,
                                             !.lastError = "",
                                             !.log = NewLog(Len(rs) + 1)], 1)
                 ELSE [g EXCEPT !.results = rs,
                                !.result = [kind |-> "returned", value |-> rs]]

\* Variant: fillMultiple returns at the first field that failed.
finishAbortsOnFailure(f, res, next) ==
    LET g == [f EXCEPT !.fpc = "idle", !.activeRequests = 0, !.qElapsed = 0]
    IN CASE f.mode = "fillWithRetry" ->
              [g EXCEPT !.result = [kind |-> "returned", value |-> res]]
         [] f.mode = "fillAndAssert" ->
              [g EXCEPT !.result =
                  IF res.success THEN [kind |-> "resolved"]
                  ELSE [kind |-> "threw", error |-> res.error,
                        attempts |-> res.attempts, expected |-> Want,
                        actual |-> res.finalValue]]
         [] f.mode = "fillMultiple" ->
              LET rs == Append(f.results, res)
              IN IF Len(rs) < f.fields /\ res.success
                 THEN beginAttempt([g EXCEPT !.results = rs,
                                             !.config = configOf(
                                                 mergeOptions(f.globalOptions,
                                                              next), TRUE),
                                             !.fieldOptions = next,
                                             !.lastError = "",
                                             !.log = NewLog(Len(rs) + 1)], 1)
                 ELSE [g EXCEPT !.results = rs,
                                !.result = [kind |-> "returned", value |-> rs]]

\* Variant: fillMultiple goes on to the next field before it pushes.
finishPushesLate(f, res, next) ==
    LET g == [f EXCEPT !.fpc = "idle", !.activeRequests = 0, !.qElapsed = 0]
    IN CASE f.mode = "fillWithRetry" ->
              [g EXCEPT !.result = [kind |-> "returned", value |-> res]]
         [] f.mode = "fillAndAssert" ->
              [g EXCEPT !.result =
                  IF res.success THEN [kind |-> "resolved"]
                  ELSE [kind |-> "threw", error |-> res.error,
                        attempts |-> res.attempts, expected |-> Want,
                        actual |-> res.finalValue]]
         [] f.mode = "fillMultiple" ->
              LET rs == Append(f.results, res)
              IN IF Len(rs) < f.fields
                 THEN beginAttempt([g EXCEPT !.config = configOf(
                                                 mergeOptions(f.globalOptions,
                                                              next), TRUE),
                                             !.fieldOptions = next,
                                             !.lastError = "",
                                             !.log = NewLog(Len(rs) + 1)], 1)
                 ELSE [g EXCEPT !.results = rs,
                                !.result = [kind |-> "returned", value |-> rs]]

\* fillWithRetry has returned res to its caller, which runs on: fillWithRetry
\* called by the scenario hands res back, fillAndAssert resolves or throws,
\* fillMultiple pushes res and calls fillWithRetry for the next field, with
\* options next, or returns the results.
finish(f, res, next) ==
    LET g == [f EXCEPT !.fpc = "idle", !.activeRequests = 0, !.qElapsed = 0]
    IN CASE f.mode = "fillWithRetry" ->
              [g EXCEPT !.result = [kind |-> "returned", value |-> res]]
         [] f.mode = "fillAndAssert" ->
              [g EXCEPT !.result =
                  IF res.success THEN [kind |-> "resolved"]
                  ELSE [kind |-> "threw", error |-> res.error,
                        attempts |-> res.attempts, expected |-> Want,
                        actual |-> res.finalValue]]
         [] f.mode = "fillMultiple" ->
              LET rs == Append(f.results, res)
              IN IF Len(rs) < f.fields
                 THEN beginAttempt([g EXCEPT !.results = rs,
                                             !.config = configOf(
                                                 mergeOptions(f.globalOptions,
                                                              next), TRUE),
                                             !.fieldOptions = next,
                                             !.lastError = "",
                                             !.log = NewLog(Len(rs) + 1)], 1)
                 ELSE [g EXCEPT !.results = rs,
                                !.result = [kind |-> "returned", value |-> rs]]

\* verifyFill has said yes.
checked(f) == [f EXCEPT !.log.yes1 = (f.attempt = 1)]

\* The verification said yes: the final value is the intended one when there
\* is a verifyAction, and is read from the field otherwise.
succeed(f, next) ==
    IF f.config.verifyAction
    THEN finish(releaseTrackers(f), FillResult(f, TRUE, Want), next)
    ELSE [f EXCEPT !.fpc = "readFinal"]

\* The verification said no: the actual value is read for the message.
mismatch(f) == [f EXCEPT !.fpc = "readActual"]

\* field.options of the field fillMultiple goes on to, if there is one.
NextOptions ==
    IF mode = "fillMultiple" /\ Len(results) + 1 < fields
    THEN BatchFieldOptions ELSE {fieldOptions}

\* ------------------------------------------------------ the scenario's calls
\* One call is followed from the page as it finds it: what a later call does
\* is what a call does from the page it finds.
Begin(m, c, n, g, o) ==
    /\ fpc = "idle"
    /\ mode = "none"
    /\ SetFill(beginAttempt([Fill EXCEPT !.mode = m, !.config = c,
                                         !.fields = n, !.results = <<>>,
                                         !.globalOptions = g,
                                         !.fieldOptions = o,
                                         !.result = NoResult,
                                         !.lastError = "",
                                         !.log = NewLog(1)], 1))
    /\ UNCHANGED <<target, inflight, captureVars, matchVars, peer>>

FillWithRetry(c) == Begin("fillWithRetry", c, 0, NoOptions, NoOptions)

FillAndAssert(c) == Begin("fillAndAssert", c, 0, NoOptions, NoOptions)

\* fillMultiple(fields, globalOptions) with n fields of string values, g
\* being globalOptions and o field.options of the first field.
FillMultiple(n, g, o) ==
    Begin("fillMultiple", configOf(mergeOptions(g, o), TRUE), n, g, o)

\* -------------------------------------------- the awaits of fillWithRetry
\* await locator.clear(), then page.waitForTimeout(100) is awaited; a field
\* that is disabled is not cleared.
ClearSettles(out) ==
    /\ fpc = "clear"
    /\ out = "ok" => ~target.disabled
    /\ IF out = "ok"
       THEN /\ target' = [target EXCEPT !.value = ""]
            /\ SetFill([Fill EXCEPT !.fpc = "clearSleep"])
       ELSE /\ target' = target
            /\ SetFill(failAttempt(Fill, "clear"))
    /\ UNCHANGED <<inflight, captureVars, matchVars, peer>>

ClearSleepWakes ==
    /\ fpc = "clearSleep"
    /\ SetFill(fillStep(Fill))
    /\ UNCHANGED <<target, inflight, captureVars, matchVars, peer>>

\* await config.fillAction(locator, value): the caller's function puts the
\* field in the intended state, or throws.
FillActionSettles(out) ==
    /\ fpc = "fillAction"
    /\ IF out = "ok"
       THEN /\ target' = [target EXCEPT !.value = Want]
            /\ SetFill([Fill EXCEPT !.fpc = "waitAfterBlur"])
       ELSE /\ target' = target
            /\ SetFill(failAttempt(Fill, "fillAction"))
    /\ UNCHANGED <<inflight, captureVars, matchVars, peer>>

WaitAfterBlurWakes ==
    /\ fpc = "waitAfterBlur"
    /\ SetFill(afterBlur(Fill))
    /\ UNCHANGED <<target, inflight, captureVars, matchVars, peer>>

\* page.waitForTimeout(50) of the quiescence wait returns, d ms later.
QuiesceWakes(d) ==
    /\ fpc = "quiesce"
    /\ SetFill(quiesce(Fill, qElapsed + d))
    /\ UNCHANGED <<target, inflight, captureVars, matchVars, peer>>

WaitBeforeVerifyWakes ==
    /\ fpc = "waitBeforeVerify"
    /\ SetFill(verifyFill(Fill))
    /\ UNCHANGED <<target, inflight, captureVars, matchVars, peer>>

\* await verifyAction(locator, expectedValue).
VerifyActionSettles(out) ==
    /\ fpc = "verifyAction"
    /\ \E next \in NextOptions :
          SetFill(CASE out = "true" -> succeed(checked(Fill), next)
                    [] out = "false" -> mismatch(Fill)
                    [] out = "throws" -> failAttempt(Fill, "verifyAction"))
    /\ UNCHANGED <<target, inflight, captureVars, matchVars, peer>>

\* verifyFill: await locator.inputValue().
InputValueSettles(out) ==
    /\ fpc = "inputValue"
    /\ SetFill(IF out = "throws"
               THEN failAttempt(Fill, "inputValue")
               ELSE IF target.value # Want
               THEN mismatch(Fill)
               ELSE [Fill EXCEPT !.fpc = "isDisabled"])
    /\ UNCHANGED <<target, inflight, captureVars, matchVars, peer>>

\* Variant: a field whose disabled state cannot be read counts as disabled.
IsDisabledSettlesStrict(out) ==
    /\ fpc = "isDisabled"
    /\ \E next \in NextOptions :
          SetFill(IF out = "throws" \/ target.disabled
                  THEN mismatch(Fill)
                  ELSE succeed(checked(Fill), next))
    /\ UNCHANGED <<target, inflight, captureVars, matchVars, peer>>

\* verifyFill: await locator.isDisabled().catch(() => false).
IsDisabledSettles(out) ==
    /\ fpc = "isDisabled"
    /\ \E next \in NextOptions :
          SetFill(IF out = "ok" /\ target.disabled
                  THEN mismatch(Fill)
                  ELSE succeed(checked(Fill), next))
    /\ UNCHANGED <<target, inflight, captureVars, matchVars, peer>>

\* finalValue = await locator.inputValue(), value if that throws.
ReadFinalSettles(out) ==
    /\ fpc = "readFinal"
    /\ \E next \in NextOptions :
          SetFill(finish(releaseTrackers(Fill),
                         FillResult(Fill, TRUE,
                                    IF out = "ok" THEN target.value ELSE Want),
                         next))
    /\ UNCHANGED <<target, inflight, captureVars, matchVars, peer>>

\* actualValue = await locator.inputValue(): the attempt has failed.
ReadActualSettles(out) ==
    /\ fpc = "readActual"
    /\ SetFill(failAttempt(Fill, "mismatch"))
    /\ UNCHANGED <<target, inflight, captureVars, matchVars, peer>>

\* page.waitForTimeout(config.retryDelay) returns: the next iteration.
RetryDelayWakes ==
    /\ fpc = "retryDelay"
    /\ SetFill(beginAttempt(Fill, attempt + 1))
    /\ UNCHANGED <<target, inflight, captureVars, matchVars, peer>>

\* await locator.inputValue().catch(() => ''): the failure is returned.
FinalReadSettles(out) ==
    /\ fpc = "finalRead"
    /\ \E next \in NextOptions :
          SetFill(finish(Fill,
                         FillResult(Fill, FALSE,
                                    IF out = "ok" THEN target.value ELSE ""),
                         next))
    /\ UNCHANGED <<target, inflight, captureVars, matchVars, peer>>

\* ------------------------------------------------------------- the page
\* The page's own scripts change the field while a call is suspended.
PageMutates(v, d) ==
    /\ fpc # "idle"
    /\ target # [value |-> v, disabled |-> d]
    /\ target' = [value |-> v, disabled |-> d]
    /\ log' = [log EXCEPT !.touched = TRUE]
    /\ UNCHANGED <<fpc, mode, config, attempt, lastError, activeRequests,
                   trackRequest, trackFinish, qElapsed, result, fields,
                   results, globalOptions, fieldOptions, inflight,
                   pageListeners, captureVars, matchVars, peer>>

\* The page emits 'request': trackRequest, if registered, counts it.
RequestStarted ==
    /\ fpc # "idle"
    /\ inflight < MaxInflight
    /\ inflight' = inflight + 1
    /\ activeRequests' = IF trackRequest \in pageListeners.request
                         THEN activeRequests + 1 ELSE activeRequests
    /\ peer' = IF /\ peer.trackRequest # Null
                  /\ peer.trackRequest \in pageListeners.request
               THEN [peer EXCEPT !.activeRequests = @ + 1] ELSE peer
    /\ UNCHANGED <<fpc, mode, config, attempt, lastError, trackRequest,
                   trackFinish, qElapsed, result, fields, results, target,
                   globalOptions, fieldOptions, log, pageListeners,
                   captureVars, matchVars>>

\* The page emits ev, 'requestfinished' or 'requestfailed': trackFinish, if
\* registered, counts it.
RequestEnded(ev) ==
    /\ fpc # "idle"
    /\ inflight > 0
    /\ inflight' = inflight - 1
    /\ activeRequests' = IF trackFinish \in pageListeners[ev]
                         THEN activeRequests - 1 ELSE activeRequests
    /\ peer' = IF /\ peer.trackFinish # Null
                  /\ peer.trackFinish \in pageListeners[ev]
               THEN [peer EXCEPT !.activeRequests = @ - 1] ELSE peer
    /\ UNCHANGED <<fpc, mode, config, attempt, lastError, trackRequest,
                   trackFinish, qElapsed, result, fields, results, target,
                   globalOptions, fieldOptions, log, pageListeners,
                   captureVars, matchVars>>

\* The page as a call of FormFillUtil may find it.
FillInit ==
    /\ FillIdle
    /\ target \in [value : Values, disabled : BOOLEAN]
    /\ inflight \in 0..MaxInflight
    /\ CaptureInit
    /\ pattern = StringPattern

FillNext ==
    \/ \E c \in Configs : FillWithRetry(c)
    \/ \E c \in Configs : FillAndAssert(c)
    \/ \E out \in Settles : ClearSettles(out)
    \/ ClearSleepWakes
    \/ \E out \in Settles : FillActionSettles(out)
    \/ WaitAfterBlurWakes
    \/ \E d \in {QuiescePoll, 2 * QuiescePoll} : QuiesceWakes(d)
    \/ WaitBeforeVerifyWakes
    \/ \E out \in {"true", "false", "throws"} : VerifyActionSettles(out)
    \/ \E out \in Settles : InputValueSettles(out)
    \/ \E out \in Settles : IsDisabledSettles(out)
    \/ \E out \in Settles : ReadFinalSettles(out)
    \/ \E out \in Settles : ReadActualSettles(out)
    \/ RetryDelayWakes
    \/ \E out \in Settles : FinalReadSettles(out)
    \/ \E v \in Values, d \in BOOLEAN : PageMutates(v, d)
    \/ RequestStarted
    \/ \E ev \in {"requestfinished", "requestfailed"} : RequestEnded(ev)

FillSpec == FillInit /\ [][FillNext]_vars

\* The await the call is suspended in settles: the driver's sleeps return
\* and its reads, the fillAction and the verifyAction end, one way or the
\* other.
FillProgress ==
    \/ \E out \in Settles : ClearSettles(out)
    \/ ClearSleepWakes
    \/ \E out \in Settles : FillActionSettles(out)
    \/ WaitAfterBlurWakes
    \/ \E d \in {QuiescePoll, 2 * QuiescePoll} : QuiesceWakes(d)
    \/ WaitBeforeVerifyWakes
    \/ \E out \in {"true", "false", "throws"} : VerifyActionSettles(out)
    \/ \E out \in Settles : InputValueSettles(out)
    \/ \E out \in Settles : IsDisabledSettles(out)
    \/ \E out \in Settles : ReadFinalSettles(out)
    \/ \E out \in Settles : ReadActualSettles(out)
    \/ RetryDelayWakes
    \/ \E out \in Settles : FinalReadSettles(out)

\* A call of fillWithRetry that waits for requests, on a page whose
\* requests start, finish, fail or stay in flight.
ReturnNext ==
    \/ \E c \in {k \in Configs : k.waitForRequests} : FillWithRetry(c)
    \/ FillProgress
    \/ RequestStarted
    \/ \E ev \in {"requestfinished", "requestfailed"} : RequestEnded(ev)

\* Every await of the call settles; of the requests nothing is assumed.
FairFillSpec == FillInit /\ [][ReturnNext]_vars /\ WF_vars(FillProgress)

\* A call with the default fill and verification for a string value, on a
\* field that the page enables and disables (a field that is loading) and
\* whose value the page leaves alone.
LoadingNext ==
    \/ \E c \in {k \in Configs : /\ ~k.fillAction /\ ~k.verifyAction
                                  /\ k.isString /\ k.clearOnRetry} :
          FillWithRetry(c)
    \/ \E out \in Settles : ClearSettles(out)
    \/ ClearSleepWakes
    \/ WaitAfterBlurWakes
    \/ \E d \in {QuiescePoll, 2 * QuiescePoll} : QuiesceWakes(d)
    \/ WaitBeforeVerifyWakes
    \/ \E out \in Settles : InputValueSettles(out)
    \/ \E out \in Settles : IsDisabledSettles(out)
    \/ \E out \in Settles : ReadFinalSettles(out)
    \/ \E out \in Settles : ReadActualSettles(out)
    \/ RetryDelayWakes
    \/ \E out \in Settles : FinalReadSettles(out)
    \/ \E d \in BOOLEAN : PageMutates(target.value, d)
    \/ RequestStarted
    \/ \E ev \in {"requestfinished", "requestfailed"} : RequestEnded(ev)

LoadingSpec == FillInit /\ [][LoadingNext]_vars

\* A pattern that the url UrlOther contains and the url UrlMatch does not.
OtherPattern == <<"/", "U">>

\* The other owners a page is shared with: a capturing HttpCapture on the
\* same or on another pattern, whose startCapture registered the closures 1,
\* and an attempt of another fillWithRetry whose trackers are registered.
Peers == [pattern : {urlPattern, OtherPattern},
          requestHandler : {1}, responseHandler : {1},
          capturedData : {<<>>}, reading : {{}},
          trackRequest : {2}, trackFinish : {1}, activeRequests : {0}]

\* A new HttpCapture and no call of FormFillUtil yet, on a page where the
\* listeners of a peer are registered and one request is in flight.
SharedInit ==
    /\ FillIdle
    /\ target = [value |-> Want, disabled |-> FALSE]
    /\ inflight = 1
    /\ isCapturing = FALSE
    /\ capturedData = <<>>
    /\ requestHandler = Null
    /\ responseHandler = Null
    /\ requestMap = {}
    /\ peer \in Peers
    /\ pageListeners =
           [request |-> {peer.requestHandler, peer.trackRequest},
            response |-> {peer.responseHandler},
            requestfinished |-> {peer.trackFinish},
            requestfailed |-> {peer.trackFinish}]
    /\ exchanges = <<>>
    /\ arrived = <<>>
    /\ pc = "idle"
    /\ timeout = 0
    /\ elapsed = 0
    /\ wakeAt = 0
    /\ viaHelper = FALSE
    /\ ret = Void("new", 0)
    /\ obsInWindow = 0
    /\ captureCount = 0
    /\ preTriggered = {}
    /\ pattern = StringPattern
    /\ lastIndex = 0
    /\ tested = <<>>

\* The correlator is started and stopped and a fillWithRetry that counts
\* requests runs its attempts (a read of the value may throw, which makes
\* the second attempt), while the page emits its events to every listener,
\* those of the peer included.
\* The exchanges issued on the shared page.
MaxSharedResp == 1

SharedNext ==
    \/ StartCapture
    \/ StopCapture
    \/ \E url \in Urls : Len(exchanges) < MaxSharedResp /\ RequestEvent(url)
    \/ \E r \in 1..MaxSharedResp : ResponseEvent(r)
    \/ \E r \in 1..MaxSharedResp : BodySettles(r, "text")
    \/ \E r \in 1..MaxSharedResp : PeerBodySettles(r, "text")
    \/ \E c \in {k \in Configs : /\ k.waitForRequests /\ k.maxRetries = 1
                                  /\ ~k.fillAction /\ ~k.verifyAction
                                  /\ k.isString /\ k.clearOnRetry} :
          FillWithRetry(c)
    \/ ClearSettles("ok")
    \/ ClearSleepWakes
    \/ WaitAfterBlurWakes
    \/ \E d \in {QuiescePoll, 2 * QuiescePoll} : QuiesceWakes(d)
    \/ WaitBeforeVerifyWakes
    \/ \E out \in Settles : InputValueSettles(out)
    \/ IsDisabledSettles("ok")
    \/ ReadFinalSettles("ok")
    \/ ReadActualSettles("ok")
    \/ RetryDelayWakes
    \/ FinalReadSettles("ok")
    \/ \E ev \in {"requestfinished", "requestfailed"} : RequestEnded(ev)

SharedSpec == SharedInit /\ [][SharedNext]_vars

\* A fillMultiple over fields with a fillAction and a verifyAction.
BatchNext ==
    \/ \E n \in 1..MaxFields, g \in BatchGlobalOptions,
          o \in BatchFieldOptions : FillMultiple(n, g, o)
    \/ \E out \in Settles : FillActionSettles(out)
    \/ WaitAfterBlurWakes
    \/ \E d \in {QuiescePoll, 2 * QuiescePoll} : QuiesceWakes(d)
    \/ WaitBeforeVerifyWakes
    \/ \E out \in {"true", "false", "throws"} : VerifyActionSettles(out)
    \/ \E out \in Settles : ReadActualSettles(out)
    \/ RetryDelayWakes
    \/ \E out \in Settles : FinalReadSettles(out)
    \/ \E v \in Values, d \in BOOLEAN : PageMutates(v, d)
    \/ RequestStarted
    \/ \E ev \in {"requestfinished", "requestfailed"} : RequestEnded(ev)

BatchSpec == FillInit /\ [][BatchNext]_vars

\* ------------------------------------------------------ matchesPattern
\* A correlator constructed with any of the patterns, and its matchesPattern
\* called with one url after the other, as its handlers do on the events
\* of the page.
MatchesPattern(url) ==
    /\ Len(tested) < MaxTests
    /\ LET m == matchesPatternOf(pattern, lastIndex, url)
       IN /\ lastIndex' = m.lastIndex
          /\ tested' = Append(tested, [url |-> url, matches |-> m.result])
    /\ UNCHANGED <<pattern, fillVars, captureVars, pageListeners, peer>>

MatchInit ==
    /\ FillIdle
    /\ target = [value |-> "", disabled |-> FALSE]
    /\ inflight = 0
    /\ CaptureInit
    /\ pattern \in Patterns

MatchNext == \E url \in MatchUrls : MatchesPattern(url)

MatchSpec == MatchInit /\ [][MatchNext]_vars

\* ================================================================ claims
Pos(seq, x) == CHOOSE k \in 1..Len(seq) : seq[k] = x

WaitDone(op) ==
    /\ pc = "idle"
    /\ ret.op = op
    /\ ret.kind \in {"pair", "timeout"}

\* C1: a waitForNextCapture(timeout) on a capturing correlator during which
\* exactly one matching response was captured less than timeout ms after the
\* call returns that matching pair; it does not throw the timeout error.
C1_OneResponseInWindowIsReturned ==
    (WaitDone("waitForNextCapture") /\ isCapturing /\ obsInWindow = 1)
        => /\ ret.kind = "pair"
           /\ matchesPattern(exchanges[ret.value.response].url)

\* C2: the timeout error is never thrown before timeout ms have elapsed
\* since the call, and a wait whose buffer stays empty ends with that error.
C2_TimeoutOnlyAfterTimeout ==
    /\ [](ret.kind = "timeout" => ret.waited >= ret.timeout)
    /\ (pc = "sleeping" /\ capturedData = <<>>)
          ~> (capturedData # <<>> \/ (pc = "idle" /\ ret.kind = "timeout"))

\* C2 witness: a wait that polled and then threw after its timeout.
C2_Witness ==
    /\ WaitDone("waitForNextCapture")
    /\ ret.kind = "timeout"
    /\ ret.slept
    /\ ret.timeout > 0
    /\ ret.waited >= ret.timeout
    /\ capturedData = <<>>

\* C3: getAllCapturedData returns exactly the pairs captured since the last
\* start / clear, whatever waits and snapshots were made in between: the
\* buffer holds captureCount pairs and a snapshot taken earlier is a prefix.
C3_ReadsDoNotConsume ==
    /\ Len(getAllCapturedData(capturedData)) = captureCount
    /\ ret.kind = "all" =>
          /\ Len(ret.value) <= Len(capturedData)
          /\ ret.value = SubSeq(capturedData, 1, Len(ret.value))

\* C3 witness: two captures, and a wait that polled and returned a pair.
C3_Witness ==
    /\ WaitDone("waitForNextCapture")
    /\ ret.kind = "pair"
    /\ ret.slept
    /\ captureCount = 2
    /\ Len(capturedData) = 2

\* C4: the buffer is in the order in which the matching responses were
\* delivered to the response handler.
C4_BufferInArrivalOrder ==
    \A i, j \in 1..Len(capturedData) :
        i < j => Pos(arrived, capturedData[i].response)
                   < Pos(arrived, capturedData[j].response)

\* C5: every pair in the buffer stems from a response that was delivered
\* while the correlator was capturing; a matching response delivered after
\* stopCapture has returned adds nothing.
C5_NoCaptureAfterStop ==
    \A i \in 1..Len(capturedData) : exchanges[capturedData[i].response].live

\* C5 witness: a correlator holding a pair was stopped; the response of a
\* matching exchange issued after the stop was delivered and left the buffer
\* as it was.
C5_Witness ==
    /\ ~isCapturing
    /\ ret.op = "stopCapture"
    /\ ret.held = 1
    /\ Len(capturedData) = 1
    /\ \E r \in (ret.seen + 1)..Len(exchanges) :
          /\ matchesPattern(exchanges[r].url)
          /\ exchanges[r].st = "unhandled"
          /\ ~exchanges[r].live

C7_SecondWaitReturnsNext ==
    [][\A t \in Timeouts :
         (/\ WaitForNextCapture(t)
          /\ ret.op = "waitForNextCapture"
          /\ ret.kind = "pair"
          /\ \E r \in (ret.seen + 1)..Len(exchanges) :
                matchesPattern(exchanges[r].url)
          /\ ret'.kind = "pair")
            => ret'.value.response \in (ret.seen + 1)..Len(exchanges)]_vars

\* C8: when waitForHttpCapture completes and the response of a matching
\* exchange triggered before the call has been delivered by then (and is not
\* still being read), the call returns the pair of such an exchange instead
\* of throwing the timeout error.
C8_HelperReturnsTriggeredExchange ==
    [][(/\ PollWake
        /\ viaHelper
        /\ pc' = "idle"
        /\ \E r \in preTriggered : exchanges[r].st \in {"unhandled", "done"})
          => /\ ret'.kind = "pair"
             /\ ret'.value.response \in preTriggered]_vars

\* C9: the page holds at most one response listener and one request
\* listener of the correlator, one of each exactly while it is capturing and
\* none otherwise; startCapture while capturing changes neither the
\* listeners nor the buffer, and startCapture from idle empties the buffer.
C9_ListenerLifecycle ==
    /\ [](/\ Cardinality(pageListeners.response) <= 1
          /\ Cardinality(pageListeners.request) <= 1
          /\ isCapturing <=> /\ pageListeners.response = {responseHandler}
                              /\ pageListeners.request = {requestHandler}
                              /\ responseHandler # Null
                              /\ requestHandler # Null
          /\ ~isCapturing => /\ pageListeners.response = {}
                             /\ pageListeners.request = {})
    /\ [][StartCapture =>
            IF isCapturing
            THEN UNCHANGED <<pageListeners, capturedData, isCapturing>>
            ELSE capturedData' = <<>> /\ isCapturing']_vars

\* C9 witness: startCapture was called on a capturing correlator whose
\* buffer held a pair.
C9_Witness ==
    /\ ret.op = "startCapture"
    /\ ret.held = 1
    /\ isCapturing
    /\ Len(capturedData) = 1
    /\ captureCount = 1
    /\ Cardinality(pageListeners.response) = 1

\* C10: stopCapture leaves the correlator idle with both listeners
\* unregistered and the buffer (what getAllCapturedData returns) as it was;
\* on a correlator that is not capturing it changes nothing.
C10_StopIdempotentKeepsBuffer ==
    [][StopCapture =>
         /\ ~isCapturing'
         /\ pageListeners'.response = pageListeners.response \ {responseHandler}
         /\ pageListeners'.request = pageListeners.request \ {requestHandler}
         /\ getAllCapturedData(capturedData')
               = getAllCapturedData(capturedData)
         /\ ~isCapturing => UNCHANGED objVars]_vars

\* C10 witness: a capturing correlator holding a pair was stopped.
C10_Witness ==
    /\ ret.op = "stopCapture"
    /\ ret.held = 1
    /\ ~isCapturing
    /\ pageListeners.response = {}
    /\ pageListeners.request = {}
    /\ Len(capturedData) = 1

\* C11: a waitForNextCapture that times out leaves the correlator as it was:
\* a capturing correlator is still capturing, both of its listeners are
\* still registered and the buffer is untouched; a matching response
\* delivered after the timeout is still taken by the handler, and its pair
\* is appended when its body has been read.
C11_TimeoutLeavesCorrelatorUnchanged ==
    [][/\ (/\ ret' # ret
            /\ ret'.op = "waitForNextCapture"
            /\ ret'.kind = "timeout")
           => /\ UNCHANGED objVars
              /\ isCapturing =>
                    /\ isCapturing'
                    /\ requestHandler' \in pageListeners'.request
                    /\ responseHandler' \in pageListeners'.response
       /\ (/\ ret.op = "waitForNextCapture"
            /\ ret.kind = "timeout"
            /\ isCapturing)
           => \A r \in DOMAIN exchanges :
                 /\ (/\ exchanges[r].st = "pending"
                      /\ exchanges'[r].st # "pending"
                      /\ matchesPattern(exchanges[r].url))
                     => /\ exchanges'[r].st = "reading"
                        /\ exchanges'[r].live
                 /\ exchanges'[r].readers < exchanges[r].readers
                     => \E body \in Bodies :
                           capturedData' = Append(capturedData, Pair(r, body))
      ]_vars

\* C11 witness: a wait on a capturing correlator slept and timed out, and
\* the buffer now holds the pair of an exchange that began after that.
C11_Witness ==
    /\ ret.op = "waitForNextCapture"
    /\ ret.kind = "timeout"
    /\ ret.slept
    /\ isCapturing
    /\ requestHandler \in pageListeners.request
    /\ responseHandler \in pageListeners.response
    /\ \E r \in (ret.seen + 1)..Len(exchanges) :
          \E k \in DOMAIN capturedData : capturedData[k].response = r

\* C12: when waitForHttpCapture completes, by returning a pair or by
\* throwing the timeout error, the listeners it registered are registered no
\* more and the page's listeners are those of before the call.
C12_HelperReleasesListeners ==
    [][(/\ ret' # ret
        /\ ret'.op = "waitForHttpCapture"
        /\ ret'.kind \in {"pair", "timeout"})
       => LET before == IF pc = "sleeping"
                        THEN off(off(pageListeners, "request", requestHandler),
                                 "response", responseHandler)
                        ELSE pageListeners
          IN /\ pageListeners' = before
             /\ pc = "sleeping" =>
                   /\ requestHandler \in pageListeners.request
                   /\ responseHandler \in pageListeners.response
                   /\ requestHandler \notin pageListeners'.request
                   /\ responseHandler \notin pageListeners'.response
      ]_vars

\* C12 witness: waitForHttpCapture slept, returned a pair, and no listener
\* is registered on the page.
C12_Witness ==
    /\ ret.op = "waitForHttpCapture"
    /\ ret.kind = "pair"
    /\ ret.slept
    /\ pageListeners.request = {}
    /\ pageListeners.response = {}

\* The call of fillWithRetry / fillAndAssert has ended.
FillDone(m) ==
    /\ mode = m
    /\ fpc = "idle"
    /\ result # NoResult

\* The failure an attempt ends with when it fails from where it is.
FailureAt(at) ==
    CASE at = "clear" -> "clear"
      [] at = "fillAction" -> "fillAction"
      [] at = "waitBeforeVerify" -> "config"
      [] at = "verifyAction" -> "verifyAction"
      [] at = "inputValue" -> "inputValue"
      [] at = "readActual" -> "mismatch"
      [] OTHER -> "unknown"

\* C13: when the verification of the first attempt says yes, fillWithRetry
\* returns success with attempts = 1, having called the fillAction once (if
\* there is one: the action step does nothing otherwise) and verifyFill
\* once, without a clear step and without a sleep of retryDelay.
C13_FirstCheckTrueIsOneAttempt ==
    log.yes1 =>
        /\ fpc \in {"readFinal", "idle"}
        /\ attempt = 1
        /\ log.actions = (IF config.fillAction THEN 1 ELSE 0)
        /\ log.verifies = 1
        /\ log.clears = 0
        /\ log.retryDelays = 0
        /\ FillDone("fillWithRetry") =>
              /\ result.kind = "returned"
              /\ result.value.success
              /\ result.value.attempts = 1

\* C13 witness: a call allowed retries and a clear step, with a fillAction,
\* returned success after a first verification that said yes.
C13_Witness ==
    /\ FillDone("fillWithRetry")
    /\ log.yes1
    /\ config.fillAction
    /\ config.clearOnRetry
    /\ config.maxRetries = MaxRetries
    /\ result.value.success
    /\ result.value.attempts = 1
    /\ log.actions = 1

C16_ConfigErrorRaisedAtOnce ==
    [][(/\ mode \in {"fillWithRetry", "fillAndAssert"}
        /\ ~config.isString /\ ~config.verifyAction
        /\ fpc = "waitBeforeVerify" /\ fpc' # "waitBeforeVerify")
       => /\ attempt = 1
          /\ fpc' = "idle"
          /\ result'.kind = "threw"
      ]_vars

C19_BatchIsSequential ==
    [][mode' = "fillMultiple"
       => /\ fpc' # "idle" => /\ log'.field = Len(results') + 1
                              /\ log'.field <= fields'
          /\ (\/ log'.actions > log.actions
              \/ log'.verifies > log.verifies
              \/ (trackRequest' # Null /\ trackRequest' # trackRequest))
             => Len(results') = log'.field - 1
          /\ Cardinality(pageListeners'.request) <= 1
          /\ Cardinality(pageListeners'.requestfinished) <= 1
      ]_vars

\* C19 witness: the second field is at its verification, its listeners
\* registered, and the first field has its result.
C19_Witness ==
    /\ mode = "fillMultiple"
    /\ log.field = 2
    /\ fpc = "verifyAction"
    /\ Len(results) = 1
    /\ results[1].field = 1
    /\ trackRequest \in pageListeners.request

\* C20: a call given a string and no fillAction or verifyAction, on a field
\* that is not disabled and that nothing but the call touches, succeeds and
\* leaves the field holding the intended value, unless it ended in an error
\* of the driver.
C20_DefaultFillFillsField ==
    (/\ mode \in {"fillWithRetry", "fillAndAssert"}
     /\ fpc = "idle"
     /\ result # NoResult
     /\ config.isString /\ ~config.fillAction /\ ~config.verifyAction
     /\ ~log.touched
     /\ ~target.disabled
     /\ lastError \in {"", "mismatch"})
    => /\ \/ result.kind = "resolved"
          \/ result.kind = "returned" /\ result.value.success
       /\ target.value = Want

\* The field holds the intended value and is not disabled.
Right == target.value = Want /\ ~target.disabled

\* The awaits of an attempt, from the fillAction to the read of finalValue.
InAttempt == {"fillAction", "waitAfterBlur", "quiesce", "waitBeforeVerify",
              "inputValue", "isDisabled", "readFinal"}

\* C21: fillWithRetry for a string with the default verification, on a field
\* that already holds the intended value, is enabled and is left alone by
\* the page, begins without a clear step, clears nothing in its first
\* attempt, never finds a mismatch in it (the attempt can only fail by a
\* call that throws), and returns success with attempts = 1.
C21_RepeatOnRightFieldIsOneAttempt ==
    [][(/\ mode' = "fillWithRetry"
        /\ config'.isString /\ ~config'.verifyAction
        /\ Right
        /\ ~log'.touched)
       => /\ (fpc = "idle" /\ fpc' # "idle")
               => /\ attempt' = 1
                  /\ fpc' # "clear"
                  /\ log'.clears = 0
          /\ (attempt = 1 /\ fpc \in InAttempt)
               => /\ log'.clears = 0
                  /\ fpc' # "readActual"
                  /\ fpc' \in {"retryDelay", "finalRead"}
                        => lastError' \in {"inputValue", "fillAction"}
                  /\ fpc' = "idle"
                        => /\ result'.kind = "returned"
                           /\ result'.value.success
                           /\ result'.value.attempts = 1
                           /\ result'.value.finalValue = Want
      ]_vars

\* C21 witness: a call that fills by itself (no fillAction) and is allowed
\* retries with a clear step returned success at its first attempt on a
\* field it found right: nothing was cleared.
C21_Witness ==
    /\ FillDone("fillWithRetry")
    /\ config.isString /\ ~config.verifyAction /\ ~config.fillAction
    /\ config.clearOnRetry
    /\ config.maxRetries = MaxRetries
    /\ ~log.touched
    /\ Right
    /\ log.clears = 0
    /\ log.verifies = 1
    /\ result.value.success
    /\ result.value.attempts = 1

\* The awaits between the page.on of an attempt and its finally block.
Tracked == InAttempt \cup {"clear", "clearSleep", "verifyAction", "readActual"}

\* C22: the request tracker of fillWithRetry lives for one attempt: the page
\* never has more than one set of its listeners; while an attempt runs with
\* waitForRequests the set of that attempt is registered; none is
\* registered during the sleep of retryDelay, after the last attempt or
\* after the call has ended, however the attempt ended; and without
\* waitForRequests none is ever registered.
C22_TrackersAreAttemptScoped ==
    LET registered == fpc \in Tracked /\ config.waitForRequests
    IN /\ pageListeners.request
             = (IF registered THEN {trackRequest} ELSE {})
       /\ pageListeners.requestfinished
             = (IF registered THEN {trackFinish} ELSE {})
       /\ pageListeners.requestfailed
             = (IF registered THEN {trackFinish} ELSE {})
       /\ registered => trackRequest # Null /\ trackFinish # Null
       /\ ~registered => trackRequest = Null /\ trackFinish = Null

\* C22 witness: in the sleep of retryDelay after an attempt whose fillAction
\* threw, with waitForRequests, no listener is registered.
C22_Witness ==
    /\ fpc = "retryDelay"
    /\ config.waitForRequests
    /\ lastError = "fillAction"
    /\ pageListeners.request = {}
    /\ pageListeners.requestfinished = {}
    /\ pageListeners.requestfailed = {}

\* The quiescence wait of the attempt in progress ended by its break.
QuiescenceTimedOut == fpc # "quiesce" /\ qElapsed > config.requestTimeout

\* C23: a quiescence wait that ends with requests still counted raises
\* nothing: the attempt goes on to the sleep of waitBeforeVerify with
\* lastError, the result and the attempt number as they were; after it
\* verifyFill is called, and the attempt then ends as the verification says:
\* success on yes, the mismatch path on no, a failed attempt with the
\* error of the call that threw.
C23_QuiescenceTimeoutIsAdvisory ==
    [][/\ (fpc = "quiesce" /\ fpc' # "quiesce")
           => /\ fpc' = "waitBeforeVerify"
              /\ lastError' = lastError
              /\ result' = result
              /\ attempt' = attempt
              /\ log' = log
       /\ (QuiescenceTimedOut /\ fpc' # fpc)
           => CASE fpc = "waitBeforeVerify" ->
                     /\ log'.verifies = log.verifies + 1
                     /\ \/ fpc' \in {"verifyAction", "inputValue"}
                        \/ lastError' = "config"
                [] fpc = "verifyAction" ->
                     \/ fpc' = "idle" /\ result'.kind \in {"returned", "resolved"}
                     \/ fpc' = "readActual"
                     \/ lastError' = "verifyAction"
                [] fpc = "inputValue" ->
                     \/ fpc' \in {"isDisabled", "readActual"}
                     \/ lastError' = "inputValue"
                [] fpc = "isDisabled" -> fpc' \in {"readFinal", "readActual"}
                [] fpc = "readFinal" ->
                     /\ fpc' = "idle"
                     /\ result'.kind \in {"returned", "resolved"}
                [] fpc = "readActual" -> lastError' = "mismatch"
                [] OTHER -> FALSE
      ]_vars

\* C23 witness: after a quiescence wait that timed out, with a request still
\* counted, the verification of the first attempt has said yes.
C23_Witness ==
    /\ QuiescenceTimedOut
    /\ activeRequests > 0
    /\ fpc = "readFinal"
    /\ attempt = 1
    /\ log.yes1

\* C24: while the counter listeners of an attempt are registered, its counter
\* is the number of requests started during the attempt and not yet finished
\* or failed. Two consequences are stated here: the counter is never
\* negative, and it never exceeds the number of requests in flight on the
\* page.
C24_CounterCountsAttemptRequests ==
    (fpc \in Tracked /\ config.waitForRequests)
        => /\ activeRequests >= 0
           /\ activeRequests <= inflight

\* C25: the clear step (locator.clear and its sleep) is taken at the start of
\* attempt k exactly when k > 1, clearOnRetry is set, the value is a string
\* and no fillAction is given; it is taken nowhere else in an attempt.
C25_ClearStepIffRetryOfPlainString ==
    [][IF fpc \in {"idle", "retryDelay"} /\ fpc' # fpc
       THEN LET clears == /\ attempt' > 1
                          /\ config'.clearOnRetry
                          /\ config'.isString
                          /\ ~config'.fillAction
            IN /\ (fpc' = "clear") <=> clears
               /\ log'.clears = log.clears + (IF clears THEN 1 ELSE 0)
       ELSE /\ log'.clears = log.clears
            /\ fpc' = "clear" => fpc = "clear"
      ]_vars

\* C25 witness: the second attempt of a call with clearOnRetry, a string
\* value and no fillAction is in its clear step.
C25_Witness ==
    /\ fpc = "clear"
    /\ attempt = 2
    /\ log.clears = 1
    /\ config.clearOnRetry /\ config.isString /\ ~config.fillAction

\* The end of an attempt: the sleep before the next one, the read after the
\* last one, or the return.
AttemptEnded == {"retryDelay", "finalRead", "idle"}

\* The awaits that may follow the await at, in the order of an attempt.
StepsAfter(at) ==
    CASE at \in {"idle", "retryDelay"} -> {"clear", "fillAction", "waitAfterBlur"}
      [] at = "clear" -> {"clearSleep", "retryDelay", "finalRead"}
      [] at = "clearSleep" -> {"fillAction", "waitAfterBlur"}
      [] at = "fillAction" -> {"waitAfterBlur", "retryDelay", "finalRead"}
      [] at = "waitAfterBlur" -> {"quiesce", "waitBeforeVerify"}
      [] at = "quiesce" -> {"quiesce", "waitBeforeVerify"}
      [] at = "waitBeforeVerify" ->
             {"verifyAction", "inputValue", "retryDelay", "finalRead"}
      [] at = "verifyAction" -> {"idle", "readActual", "retryDelay", "finalRead"}
      [] at = "inputValue" ->
             {"isDisabled", "readActual", "retryDelay", "finalRead"}
      [] at = "isDisabled" -> {"readFinal", "readActual"}
      [] at = "readFinal" -> {"idle"}
      [] at = "readActual" -> {"retryDelay", "finalRead"}
      [] at = "finalRead" -> {"idle"}

\* C26: the steps of an attempt follow one order: the request counter is
\* registered as the attempt begins, then the clear step if any, the
\* fillAction if any, the sleep of waitAfterBlur, the quiescence wait if
\* any, the sleep of waitBeforeVerify, verifyFill, and the release of the
\* counter as the attempt ends. verifyFill is called by the step that ends
\* the sleep of waitBeforeVerify and by no other; an attempt whose fillAction
\* threw ends there, without a verification.
C26_AttemptStepsAreOrdered ==
    [][/\ fpc' # fpc => fpc' \in StepsAfter(fpc)
       /\ (fpc \in {"idle", "retryDelay"} /\ fpc' # fpc /\ config'.waitForRequests)
           => /\ pageListeners'.request = {trackRequest'}
              /\ pageListeners'.requestfinished = {trackFinish'}
              /\ activeRequests' = 0
       /\ (fpc' \in AttemptEnded /\ fpc' # fpc)
           => /\ pageListeners'.request = {}
              /\ pageListeners'.requestfinished = {}
              /\ pageListeners'.requestfailed = {}
       /\ log'.verifies # log.verifies
           => /\ fpc = "waitBeforeVerify"
              /\ log'.verifies = log.verifies + 1
       /\ (fpc = "waitBeforeVerify" /\ fpc' # fpc)
           => log'.verifies = log.verifies + 1
       /\ (fpc = "fillAction" /\ fpc' # "waitAfterBlur" /\ fpc' # fpc)
           => /\ fpc' \in AttemptEnded
              /\ lastError' = "fillAction"
       /\ (fpc = "fillAction" /\ fpc' = "waitAfterBlur")
           => target'.value = Want
      ]_vars

\* C26 witness: the second attempt of a call with a fillAction has come to
\* its verifyAction, after a quiescence wait that timed out; each of the two
\* attempts called the fillAction once and verifyFill once.
C26_Witness ==
    /\ fpc = "verifyAction"
    /\ attempt = 2
    /\ config.fillAction
    /\ QuiescenceTimedOut
    /\ log.actions = 2
    /\ log.verifies = 2

\* C27: the attempts of a call are numbered 1, 2, ... in order, one at a
\* time: the number goes up by one, at the step that begins an attempt, and
\* never above maxRetries + 1. The sleep of retryDelay is taken once between
\* two attempts and not after the last: it is entered only by the end of a
\* failed attempt that is not the last, whatever made it fail, and at every
\* moment of attempt k, and when the call has ended after k attempts, k - 1
\* sleeps have been taken.
C27_AttemptsAreNumberedAndSpaced ==
    [][/\ attempt' # attempt
           => /\ attempt' = attempt + 1
              /\ fpc \in {"idle", "retryDelay"}
       /\ (fpc \in {"idle", "retryDelay"} /\ fpc' # fpc)
           => attempt' = attempt + 1
       /\ attempt' <= config'.maxRetries + 1
       /\ log'.retryDelays # log.retryDelays
           => /\ log'.retryDelays = log.retryDelays + 1
              /\ fpc' = "retryDelay"
              /\ fpc # "retryDelay"
              /\ attempt <= config.maxRetries
              /\ lastError' = FailureAt(fpc)
       /\ (fpc' = "retryDelay" /\ fpc # "retryDelay")
           => log'.retryDelays = log.retryDelays + 1
       /\ log'.retryDelays
             = (IF fpc' = "retryDelay" THEN attempt' ELSE attempt' - 1)
       /\ (fpc' = "idle" /\ fpc # "idle" /\ result'.kind = "returned")
           => /\ log'.retryDelays = attempt' - 1
              /\ result'.value.attempts = attempt'
      ]_vars

\* C27 witness: a call with maxRetries = 2 has returned a failure after three
\* attempts, the last ended by a fillAction that threw, and two sleeps of
\* retryDelay.
C27_Witness ==
    /\ FillDone("fillWithRetry")
    /\ config.maxRetries = 2
    /\ attempt = 3
    /\ lastError = "fillAction"
    /\ log.retryDelays = 2
    /\ ~result.value.success

\* C28: when fillWithRetry returns success, finalValue is the value the field
\* holds, read after the verification; it is the intended value instead only
\* when that read failed. A success returned without the read having been
\* tried has no failed read to fall back from, so its finalValue is the
\* field's value.
C28_FinalValueIsSnapshot ==
    [][(/\ fpc # "idle"
        /\ fpc' = "idle"
        /\ result'.kind = "returned"
        /\ result'.value.success)
           => IF fpc = "readFinal"
              THEN result'.value.finalValue \in {target.value, Want}
              ELSE result'.value.finalValue = target.value
      ]_vars

\* The keys of the options.
OptionKeys == {"maxRetries", "waitForRequests", "clearOnRetry", "fillAction",
               "verifyAction", "requestTimeout"}

\* C29: while fillMultiple fills a field, the config in use has, key by key,
\* the value field.options of that field sets; where they set none, the value
\* globalOptions sets; where neither does, the default. It depends on no
\* other field's options, and globalOptions is the same for every field.
C29_FieldOptionsOverrideGlobal ==
    [][/\ (mode' = "fillMultiple" /\ fpc' # "idle")
           => \A k \in OptionKeys :
                 config'[k] =
                    IF k \in DOMAIN fieldOptions' THEN fieldOptions'[k]
                    ELSE IF k \in DOMAIN globalOptions' THEN globalOptions'[k]
                    ELSE CASE k = "maxRetries" -> 3
                           [] k = "requestTimeout" -> 3000
                           [] k \in {"waitForRequests", "clearOnRetry"} -> TRUE
                           [] k \in {"fillAction", "verifyAction"} -> FALSE
       /\ mode = "fillMultiple" => globalOptions' = globalOptions
      ]_vars

\* C29 witness: the first field, which set maxRetries to 0, has failed after
\* its single attempt; the second field sets nothing and runs with the
\* maxRetries and the waitForRequests of globalOptions and the default of
\* clearOnRetry.
C29_Witness ==
    /\ mode = "fillMultiple"
    /\ log.field = 2
    /\ fpc = "fillAction"
    /\ Len(results) = 1
    /\ ~results[1].success
    /\ results[1].attempts = 1
    /\ fieldOptions = NoOptions
    /\ globalOptions.maxRetries = 1
    /\ "waitForRequests" \in DOMAIN globalOptions
    /\ config.maxRetries = 1
    /\ config.waitForRequests = globalOptions.waitForRequests
    /\ config.clearOnRetry

\* C30: without a verifyAction and for a string value, verifyFill reads the
\* value and then the disabled state of the field. It says no when the value
\* read is not the intended one, and goes on to the disabled state exactly
\* when it is; it then says yes when the field is not disabled and says no
\* only when it is. A yes for a disabled field is a disabled state that
\* could not be read. (A read of the value that throws is an error of the
\* attempt, not a verdict.)
C30_DefaultVerifyIsValueAndEnabled ==
    [][/\ fpc' \in {"inputValue", "isDisabled"}
           => ~config'.verifyAction /\ config'.isString
       /\ (/\ fpc = "waitBeforeVerify" /\ fpc' # fpc
           /\ ~config.verifyAction /\ config.isString)
           => fpc' = "inputValue"
       /\ (fpc = "inputValue" /\ fpc' # fpc)
           => /\ fpc' = "isDisabled" => target.value = Want
              /\ fpc' = "readActual" => target.value # Want
              /\ fpc' \notin {"isDisabled", "readActual"}
                    => lastError' = "inputValue"
       /\ (fpc = "isDisabled" /\ fpc' # fpc)
           => /\ fpc' \in {"readFinal", "readActual"}
              /\ fpc' = "readActual" => target.disabled
              /\ ~target.disabled => fpc' = "readFinal"
       /\ fpc' = "readFinal" => fpc \in {"isDisabled", "readFinal"}
      ]_vars

\* C30 witness: on a field the page left alone, holding the intended value
\* and disabled, the verification of the first attempt has said yes: the
\* disabled state could not be read.
C30_Witness ==
    /\ fpc = "readFinal"
    /\ attempt = 1
    /\ log.yes1
    /\ ~log.touched
    /\ target.value = Want
    /\ target.disabled

\* C31: whenever the body read of a matching response settles, read or
\* failed, the handler appends one pair for that response to the buffer, the
\* body being null when the read failed; the step changes nothing the
\* scenario sees of its calls: what the last call returned, the wait in
\* progress and the capture state are as before, and no call ever ends with
\* an error other than the timeout of a wait.
C31_BodyReadFailureIsNull ==
    [][/\ \A r \in DOMAIN exchanges :
             exchanges'[r].readers < exchanges[r].readers
                => /\ Len(capturedData') = Len(capturedData) + 1
                   /\ SubSeq(capturedData', 1, Len(capturedData)) = capturedData
                   /\ capturedData'[Len(capturedData')].response = r
                   /\ capturedData'[Len(capturedData')].request = r
                   /\ capturedData'[Len(capturedData')].body \in Bodies
                   /\ ret' = ret
                   /\ pc' = pc
                   /\ isCapturing' = isCapturing
                   /\ pageListeners' = pageListeners
       /\ ret'.kind \in {"void", "all", "pair", "pending", "timeout"}
       /\ ret'.kind = "timeout"
             => ret'.op \in {"waitForNextCapture", "waitForHttpCapture"}
      ]_vars

\* C31 witness: a wait has returned a pair whose body is null, and the
\* buffer holds it.
C31_Witness ==
    /\ ret.kind = "pair"
    /\ ret.op = "waitForNextCapture"
    /\ ret.value.body = "null"
    /\ capturedData # <<>>
    /\ capturedData[Len(capturedData)] = ret.value

\* C32: the buffer grows only when the handler of a response whose url
\* matches the pattern completes, and then by one pair, made of that
\* response and of the request attached to it. A request event, and the
\* response event of a url that does not match, leave the buffer as it is
\* and start no capture; every pair in the buffer is that of a matching
\* response with its own request, and no response has two pairs.
C32_CorrelationIsResponseDriven ==
    [][/\ Len(capturedData') > Len(capturedData)
           => \E r \in DOMAIN exchanges :
                 /\ matchesPattern(exchanges[r].url)
                 /\ exchanges[r].st = "reading"
                 /\ exchanges'[r].readers = exchanges[r].readers - 1
                 /\ capturedData' \in {Append(capturedData, [request |-> r,
                                                             response |-> r,
                                                             body |-> b]) :
                                         b \in Bodies}
       /\ Len(exchanges') > Len(exchanges)
           => /\ capturedData' = capturedData
              /\ arrived' = arrived
       /\ \A r \in DOMAIN exchanges :
             (exchanges[r].st = "pending" /\ exchanges'[r].st # "pending"
              /\ ~matchesPattern(exchanges[r].url))
                => /\ capturedData' = capturedData
                   /\ arrived' = arrived
                   /\ exchanges'[r].readers = 0
       /\ \A i \in DOMAIN capturedData' :
             /\ capturedData'[i].request = capturedData'[i].response
             /\ matchesPattern(exchanges'[capturedData'[i].response].url)
             /\ \A j \in DOMAIN capturedData' :
                   capturedData'[j].response = capturedData'[i].response
                      => j = i
      ]_vars

\* C32 witness: two requests for the same matching url were issued; the
\* buffer holds the pair of the second response, with the second request.
C32_Witness ==
    /\ Len(exchanges) = 2
    /\ exchanges[1].url = exchanges[2].url
    /\ matchesPattern(exchanges[2].url)
    /\ \E i \in DOMAIN capturedData :
          /\ capturedData[i].response = 2
          /\ capturedData[i].request = 2

\* C34: clear() empties the buffer and changes nothing else: the capture
\* state, the two handlers and the listeners on the page are as before.
\* A matching response delivered to a capturing correlator starts its
\* capture whether or not the buffer was cleared, and the snapshot that
\* getAllCapturedData returns is the buffer as it has grown since the clear.
C34_ClearOnlyEmptiesBuffer ==
    [][/\ (/\ ret'.op = "clear"
           /\ ret' # ret \/ Len(capturedData') < Len(capturedData))
           => /\ capturedData' = <<>>
              /\ isCapturing' = isCapturing
              /\ requestHandler' = requestHandler
              /\ responseHandler' = responseHandler
              /\ pageListeners' = pageListeners
              /\ exchanges' = exchanges
       /\ \A r \in DOMAIN exchanges :
             (/\ exchanges[r].st = "pending"
              /\ exchanges'[r].st # "pending"
              /\ isCapturing
              /\ matchesPattern(exchanges[r].url))
                => /\ exchanges'[r].readers = 1
                   /\ exchanges'[r].live
       /\ (/\ ret.op = "clear" /\ ret' = ret
           /\ Len(capturedData') >= Len(capturedData))
           => \/ capturedData' = capturedData
              \/ /\ Len(capturedData') = Len(capturedData) + 1
                 /\ SubSeq(capturedData', 1, Len(capturedData)) = capturedData
       /\ (ret'.op = "getAllCapturedData" /\ ret.op = "clear")
           => /\ ret'.value = capturedData
              /\ Len(ret'.value) = captureCount
      ]_vars

\* C34 witness: the pair of the first response was cleared away; the
\* correlator is still capturing, the second response was delivered after
\* the clear and its pair is the only one in the buffer.
C34_Witness ==
    /\ ret.op = "clear"
    /\ isCapturing
    /\ responseHandler \in pageListeners.response
    /\ Len(exchanges) = 2
    /\ exchanges[1].st = "done"
    /\ exchanges[1].live
    /\ exchanges[2].st = "done"
    /\ ret.seen = 1
    /\ Len(capturedData) = 1
    /\ capturedData[1].response = 2

\* C35: what matchesPattern returns depends on the url and the pattern only:
\* called twice with the same url on the same correlator it returns the same
\* both times, whether the pattern is a string or a regular expression, with
\* or without the flags g and y.
C35_MatchingIsStateless ==
    \A i, j \in DOMAIN tested :
        tested[i].url = tested[j].url => tested[i].matches = tested[j].matches

\* C36: when waitForNextCapture throws the timeout error the buffer is
\* empty: a wait that ends a polling sleep with a pair in the buffer returns
\* the latest pair, and a wait that throws at once found the buffer empty.
C36_TimeoutOnlyOnEmptyBuffer ==
    [][/\ (pc = "sleeping" /\ pc' = "idle" /\ capturedData # <<>>)
           => /\ ret'.kind = "pair"
              /\ ret'.value = capturedData[Len(capturedData)]
       /\ (pc = "idle" /\ ret'.kind = "timeout" /\ ret' # ret)
           => capturedData' = <<>>
      ]_vars

\* C37: while the correlator is not capturing, from the return of
\* stopCapture to the next startCapture, nothing is appended to the buffer,
\* whatever was under way when stopCapture ran.
C37_NoAppendWhileStopped ==
    [][(~isCapturing /\ ~isCapturing')
           => Len(capturedData') <= Len(capturedData)
      ]_vars

\* C38: a call of fillWithRetry or fillAndAssert whose awaits all settle
\* comes to its end, whatever the page and its requests do: in particular
\* when a request counted during an attempt never finishes.
C38_FillWithRetryReturns ==
    (fpc # "idle") ~> (fpc = "idle" /\ result # NoResult)

\* C38 witness: a call with waitForRequests has returned after all its three
\* attempts while a request is still in flight.
C38_Witness ==
    /\ FillDone("fillWithRetry")
    /\ config.waitForRequests
    /\ config.maxRetries = 2
    /\ attempt = 3
    /\ inflight > 0

\* C39: with the default fill and verification for a string value and
\* clearOnRetry, on a page that leaves the value of the field alone, the
\* call does not move the field away from the intended value: once a
\* verification has found the intended value and said no only because the
\* field was disabled, the field holds the intended value from then on. In
\* such a behaviour the value changes by the call alone, and the call never
\* writes the intended value, so a field that holds it after a mismatch held
\* it when that verification read it.
C39_RightValueIsKept ==
    [][(/\ fpc # "idle"
        /\ lastError = "mismatch"
        /\ target.value = Want)
           => target'.value = Want
      ]_vars

\* C33: an owner removes only the listeners it registered. On a page
\* shared with a capturing peer correlator (same or other pattern) and the
\* trackers of another fillWithRetry: the peer's listeners are registered in
\* every state; a stopCapture takes exactly the correlator's own two
\* closures off the page and leaves the buffers, the trackers and the
\* counters alone; the end of an attempt takes exactly its own trackers off
\* and leaves both correlators alone; and every pair of a buffer is of a
\* response whose url matches the pattern of that buffer's correlator.
C33_PeerListenersStay ==
    /\ peer.requestHandler \in pageListeners.request
    /\ peer.responseHandler \in pageListeners.response
    /\ peer.trackRequest \in pageListeners.request
    /\ peer.trackFinish \in pageListeners.requestfinished
    /\ peer.trackFinish \in pageListeners.requestfailed

C33_OwnPatternOnly ==
    /\ \A i \in DOMAIN capturedData :
          matchesPattern(exchanges[capturedData[i].request].url)
    /\ \A i \in DOMAIN peer.capturedData :
          Includes(exchanges[peer.capturedData[i].request].url, peer.pattern)

C33_StopTakesOwn ==
    (isCapturing /\ ~isCapturing')
        => /\ pageListeners' =
                 [pageListeners EXCEPT !.request = @ \ {requestHandler},
                                       !.response = @ \ {responseHandler}]
           /\ peer' = peer
           /\ capturedData' = capturedData
           /\ <<trackRequest, trackFinish, activeRequests>>'
                 = <<trackRequest, trackFinish, activeRequests>>

C33_TeardownTakesOwn ==
    (trackRequest # Null /\ trackRequest' # trackRequest)
        => /\ \A ev \in DOMAIN pageListeners :
                 pageListeners[ev] \ {trackRequest, trackFinish}
                     \subseteq pageListeners'[ev]
           /\ pageListeners'.response = pageListeners.response
           /\ requestHandler \in pageListeners'.request
                 <=> requestHandler \in pageListeners.request
           /\ peer' = peer
           /\ <<isCapturing, capturedData, requestHandler, responseHandler>>'
                 = <<isCapturing, capturedData, requestHandler,
                     responseHandler>>

C33_ListenerOwnershipIsExclusive ==
    /\ [](C33_PeerListenersStay /\ C33_OwnPatternOnly)
    /\ [][C33_StopTakesOwn /\ C33_TeardownTakesOwn]_vars

\* The correlator was stopped and the call has returned after two attempts;
\* both buffers hold a pair and the peer's counter has counted a request.
C33_Witness ==
    /\ ret.op = "stopCapture"
    /\ ~isCapturing
    /\ fpc = "idle"
    /\ result # NoResult
    /\ result.value.attempts = 2
    /\ Len(capturedData) > 0
    /\ Len(peer.capturedData) > 0
    /\ peer.activeRequests > 0
    /\ C33_PeerListenersStay

====
